---- MODULE Spec2Model ----
(***************************************************************************)
(* Model of the performance and resilience layer of geany-copilot-python:  *)
(* LRUCache and RequestDebouncer (core/cache.py), Conversation             *)
(* (core/agent.py) and ErrorRecoveryManager with the with_error_handling   *)
(* wrapper (utils/error_handling.py).                                      *)
(*                                                                         *)
(* Time is in seconds.  `now` is the system clock read by time.time() and  *)
(* datetime.now(); `mono` is the clock the threading.Timer threads wait on.*)
(***************************************************************************)
EXTENDS Integers, Sequences, FiniteSets, TLC

VARIABLES
    now,            \* system clock (time.time(), datetime.now())
    cache,          \* LRUCache._cache: OrderedDict, head = least recently used
    total_size,     \* LRUCache._total_size
    related_keys,   \* LRUCache._related_keys: key -> set of keys
    linked,         \* history: the pairs add_related_key was called with
    use_order,      \* history: the cached keys, least recently used (put or get hit) first
    result,         \* the latest cache call: its arguments and what it returned
    cache_lock,     \* LRUCache._lock: the thread holding it
    positions,      \* thread -> its position in the cache method it is calling
    written,        \* history: the latest write to the cache's structures, and the lock holder then
    mono,           \* the clock the timer threads wait on
    timers,         \* RequestDebouncer._timers: key -> its timer (0: no entry)
    threads,        \* key -> the threading.Timer objects created for it, oldest first
    callers,        \* caller thread -> its position in RequestDebouncer.debounce
    lock,           \* RequestDebouncer._lock: the caller holding it
    stopped,        \* history: the timers a debounce call cancelled before their delay elapsed
    conversations,  \* AIAgent.conversations: id -> Conversation
    active_conversation,    \* AIAgent.active_conversation
    turn_log,       \* history: id -> the turns add_turn gave the conversation, oldest first
    conv_order,     \* the keys of AIAgent.conversations in dict (insertion) order
    swept,          \* history: the latest _cleanup_conversations, what it found and removed
    circuit_breakers,   \* ErrorRecoveryManager.circuit_breakers: operation -> breaker
    error_history,  \* ErrorRecoveryManager.error_history: the timestamps of the errors
    degraded_features,  \* ErrorRecoveryManager.degraded_features
    last_trip,      \* history: operation -> the latest trip of its breaker
    error_log,      \* history: when each error was recorded, oldest first
    call,           \* the latest call of the error manager or of the wrapper
    returned,       \* how the latest call of a decorated function came back to its caller
    exchange,       \* history: the latest continue_conversation call and the states it went through
    psutil,         \* whether the optional psutil module can be imported
    last_optimization,  \* PerformanceManager._last_optimization
    optimized,      \* history: the latest auto_optimize call
    passes,         \* history: when auto_optimize ran optimize_cache, oldest first
    access_counts,  \* key -> CacheEntry.access_count of its entry (0 without an entry)
    access_patterns,    \* LRUCache._access_patterns, in dict order: the keys and their access times
    access_log,     \* history: key -> its get hits since its access history was last deleted
    hit_count,      \* LRUCache._hit_count
    miss_count,     \* LRUCache._miss_count
    get_calls,      \* history: the number of get calls made
    candidates      \* history: the latest get_preload_candidates call and what it returned

cacheVars == <<cache, total_size, related_keys, linked, use_order, result>>
rlockVars == <<cache_lock, positions, written>>
debVars == <<mono, timers, threads>>
lockVars == <<callers, lock, stopped>>
convVars == <<conversations, active_conversation, turn_log, conv_order, swept>>
errVars == <<circuit_breakers, error_history, degraded_features, last_trip, error_log, call>>
retVars == <<returned>>
dlgVars == <<exchange>>
perfVars == <<psutil, last_optimization, optimized, passes>>
statVars == <<access_counts, access_patterns, access_log, hit_count, miss_count,
              get_calls, candidates>>
vars == <<now, cacheVars, rlockVars, debVars, lockVars, convVars, errVars, retVars, dlgVars,
          perfVars, statVars>>

----------------------------------------------------------------------------
(* Bounds of the model *)

\* the clock is advanced at most MaxTicks times
MaxTicks == 2
\* the timer clock runs from 0 to MaxMono
MaxMono == 5
\* at most MaxTimers debounce calls are made
MaxTimers == 3
\* at most MaxAppends turns are added to the live conversations
MaxAppends == 4
\* the conversations are followed for MaxSeconds seconds
MaxSeconds == 1
\* the breakers are followed for MaxCooldowns default timeouts and, after each,
\* for MaxBackoff seconds
MaxCooldowns == 2
MaxBackoff == 4
\* at most MaxErrors attempts of the wrapped operation fail
MaxErrors == 4
\* at most MaxPasses optimization passes of auto_optimize are followed
MaxPasses == 3
\* at most MaxHits get calls are followed where the access history is watched
MaxHits == 11
\* at most MaxGets get calls are followed where the counters are watched
MaxGets == 4

(* Inputs *)

Keys == {"k1", "k2", "k3", "k4"}
\* cached values: ASCII strings, told apart by their length
Values == {"a", "bb", "ddddd"}
\* None, as the ttl argument of put and as an absent value
None == -1
NoValue == "None"
\* ttl arguments of put: omitted, or half an hour
TtlArgs == {None, 1800}

----------------------------------------------------------------------------
(* The clock *)

\* the clock moves by `step` seconds
Advance(step) ==
    /\ now + step <= MaxTicks * step
    /\ now' = now + step

----------------------------------------------------------------------------
(* LRUCache: configuration *)

\* LRUCache(max_size=3, ...)
max_size == 3
\* int(max_memory_mb * 1024 * 1024), a budget of four bytes
max_memory_bytes == 4
\* LRUCache(..., default_ttl=3600.0)
default_ttl == 3600
\* optimize_cache: stale_threshold = 3600
stale_threshold == 3600

(* CacheEntry *)

\* CacheEntry._calculate_size for a str: len(obj.encode('utf-8')), ASCII only
_calculate_size(obj) == Len(obj)

\* CacheEntry(value=value, timestamp=time.time()): last_access defaults to
\* time.time(), __post_init__ computes size_bytes
CacheEntry(key, value) ==
    [key |-> key, value |-> value, timestamp |-> now, last_access |-> now,
     size_bytes |-> _calculate_size(value)]

\* CacheEntry.is_expired(ttl)
is_expired(entry, ttl) == now - entry.timestamp > ttl

(* LRUCache: helpers on a store s = [cache, total_size] *)

CachedKeys(c) == {c[i].key : i \in 1..Len(c)}

EntryOf(c, key) == c[CHOOSE i \in 1..Len(c) : c[i].key = key]

RECURSIVE SumSizes(_)
SumSizes(c) == IF c = <<>> THEN 0 ELSE Head(c).size_bytes + SumSizes(Tail(c))

\* LRUCache._remove_entry
RemoveUncounted(s, key) ==
    [cache |-> SelectSeq(s.cache, LAMBDA e : e.key # key), total_size |-> s.total_size]
_remove_entry(s, key) ==
    IF key \in CachedKeys(s.cache)
    THEN [cache |-> SelectSeq(s.cache, LAMBDA e : e.key # key),
          total_size |-> s.total_size - EntryOf(s.cache, key).size_bytes]
    ELSE s

\* the key OrderedDict iteration yields first: next(iter(self._cache))
lru_key(c) == Head(c).key

\* LRUCache._evict_lru, for a non-empty cache
_evict_lru(s) == _remove_entry(s, lru_key(s.cache))

\* the loop condition of put: no free slot, or the bytes would not fit
BrokenNeedsSpace(s, size) == Len(s.cache) >= max_size
OverBudgetOnly(s, size) == s.total_size + size > max_memory_bytes
NeedsSpace(s, size) ==
    \/ Len(s.cache) >= max_size
    \/ s.total_size + size > max_memory_bytes

\* the while loop of put: evict until there is room; ok is FALSE when
\* _evict_lru finds the cache empty
RECURSIVE MakeSpace(_, _)
MakeSpace(s, size) ==
    IF NeedsSpace(s, size)
    THEN IF s.cache = <<>>
         THEN [store |-> s, ok |-> FALSE]
         ELSE MakeSpace(_evict_lru(s), size)
    ELSE [store |-> s, ok |-> TRUE]

Store == [cache |-> cache, total_size |-> total_size]

\* _remove_entry for each key of a list, in order
RECURSIVE RemoveKeys(_, _)
RemoveKeys(s, ks) ==
    IF ks = <<>> THEN s ELSE RemoveKeys(_remove_entry(s, Head(ks)), Tail(ks))

\* the keys of a sequence of entries, in order
EntryKeys(es) == [i \in 1..Len(es) |-> es[i].key]

SeqToSet(q) == {q[i] : i \in 1..Len(q)}

\* a total order of the keys, for iterating over a set of keys
KeyOrder == <<"k1", "k2", "k3", "k4">>
InOrder(S) == SelectSeq(KeyOrder, LAMBDA k : k \in S)

\* the latest call: its name and arguments, and what it returned
Result(op, key, ttl, ok, value, keys) ==
    [op |-> op, key |-> key, ttl |-> ttl, ok |-> ok, value |-> value, keys |-> keys]

----------------------------------------------------------------------------
(* LRUCache: operations *)

\* what get(key) returns
get_value(key) ==
    IF key \notin CachedKeys(cache) THEN NoValue
    ELSE IF is_expired(EntryOf(cache, key), default_ttl) THEN NoValue
    ELSE EntryOf(cache, key).value

\* history: `used` (a sequence of at most one key) was just used; keys that
\* left the cache are forgotten
Used(used) ==
    use_order' = SelectSeq(SelectSeq(use_order, LAMBDA k : k \notin SeqToSet(used)) \o used,
                           LAMBDA k : k \in CachedKeys(cache'))

\* put: a single entry exceeds the memory limit
NeverTooLarge(entry) == FALSE
TooLarge(entry) == entry.size_bytes > max_memory_bytes

\* LRUCache.put(key, value, ttl)
put(key, value, ttl) ==
    LET ttl_used == IF ttl = None THEN default_ttl ELSE ttl
        entry == CacheEntry(key, value)
        \* ttl_used is never read: neither the entry nor the cache keeps it
        \* history: the keys the put took out of the cache (the entry of the
        \* same key, the entries evicted), in the order the cache held them
        Ret(ok, left) ==
            Result("put", key, ttl_used, ok, NoValue,
                   SelectSeq(EntryKeys(cache), LAMBDA k : k \notin CachedKeys(left)))
    IN  /\ UNCHANGED <<now, related_keys, linked>>
        /\ IF TooLarge(entry)
           THEN /\ result' = Ret(FALSE, cache)
                /\ UNCHANGED <<cache, total_size>>
           ELSE LET room == MakeSpace(_remove_entry(Store, key), entry.size_bytes)
                IN  IF ~room.ok
                    THEN /\ cache' = room.store.cache
                         /\ total_size' = room.store.total_size
                         /\ result' = Ret(FALSE, room.store.cache)
                    ELSE /\ cache' = Append(room.store.cache, entry)
                         /\ total_size' = room.store.total_size + entry.size_bytes
                         /\ result' = Ret(TRUE, room.store.cache)
        /\ Used(IF result'.ok THEN <<key>> ELSE <<>>)

\* OrderedDict.move_to_end(key) followed by entry.touch()
BrokenTouch(c, key) ==
    [i \in 1..Len(c) |-> IF c[i].key = key THEN [c[i] EXCEPT !.last_access = now] ELSE c[i]]
move_to_end_and_touch(c, key) ==
    Append(SelectSeq(c, LAMBDA e : e.key # key),
           [EntryOf(c, key) EXCEPT !.last_access = now])

\* LRUCache.get(key)
get(key) ==
    /\ UNCHANGED <<now, related_keys, linked>>
    /\ result' = Result("get", key, None, get_value(key) # NoValue, get_value(key), <<>>)
    /\ IF key \notin CachedKeys(cache)
       THEN UNCHANGED <<cache, total_size>>
       ELSE IF is_expired(EntryOf(cache, key), default_ttl)
            THEN /\ cache' = _remove_entry(Store, key).cache
                 /\ total_size' = _remove_entry(Store, key).total_size
            ELSE /\ cache' = move_to_end_and_touch(cache, key)
                 /\ UNCHANGED total_size
    /\ Used(IF result'.ok THEN <<key>> ELSE <<>>)

\* LRUCache.clear
clear ==
    /\ cache' = <<>>
    /\ total_size' = 0
    /\ result' = Result("clear", NoValue, None, TRUE, NoValue, <<>>)
    /\ Used(<<>>)
    /\ UNCHANGED <<now, related_keys, linked>>

\* cleanup_expired: the keys of the expired entries, in cache order
expired_keys == EntryKeys(SelectSeq(cache, LAMBDA e : is_expired(e, default_ttl)))

\* LRUCache.cleanup_expired
cleanup_expired ==
    LET s == RemoveKeys(Store, expired_keys)
    IN  /\ cache' = s.cache
        /\ total_size' = s.total_size
        /\ result' = Result("cleanup_expired", NoValue, None, TRUE, NoValue, <<>>)
        /\ Used(<<>>)
        /\ UNCHANGED <<now, related_keys, linked>>

\* LRUCache.add_related_key(key1, key2)
add_related_key(key1, key2) ==
    LET Old(k) == IF k \in DOMAIN related_keys THEN related_keys[k] ELSE {}
    IN  /\ related_keys' =
              [k \in DOMAIN related_keys \cup {key1, key2} |->
                  Old(k) \cup (IF k = key1 THEN {key2} ELSE {})
                         \cup (IF k = key2 THEN {key1} ELSE {})]
        /\ linked' = linked \cup {<<key1, key2>>}
        /\ result' = Result("add_related_key", key1, None, TRUE, NoValue, <<key2>>)
        /\ UNCHANGED <<now, cache, total_size, use_order>>

\* the keys invalidate_related(key) removes, in the order it removes them:
\* the key itself, then its related keys, each only if it is cached
BrokenInvalidated(key) == IF key \in CachedKeys(cache) THEN <<key>> ELSE <<>>
invalidated(key) ==
    LET main == IF key \in CachedKeys(cache) THEN <<key>> ELSE <<>>
        rel  == IF key \in DOMAIN related_keys
                THEN InOrder((related_keys[key] \cap CachedKeys(cache)) \ {key})
                ELSE <<>>
    IN  main \o rel

\* LRUCache.invalidate_related(key)
invalidate_related(key) ==
    LET s == RemoveKeys(Store, invalidated(key))
    IN  /\ cache' = s.cache
        /\ total_size' = s.total_size
        /\ result' = Result("invalidate_related", key, None, TRUE, NoValue, invalidated(key))
        /\ Used(<<>>)
        /\ UNCHANGED <<now, related_keys, linked>>

\* optimize_cache: the relation graph after the entries of the stale keys are
\* pruned (each stale key is discarded from the sets of its related keys,
\* then its own set is deleted)
RECURSIVE PruneRelated(_, _)
PruneRelated(rel, ks) ==
    IF ks = <<>> THEN rel
    ELSE LET key == Head(ks)
         IN  IF key \in DOMAIN rel
             THEN PruneRelated(
                      [k \in DOMAIN rel \ {key} |->
                          IF k \in rel[key] THEN rel[k] \ {key} ELSE rel[k]],
                      Tail(ks))
             ELSE PruneRelated(rel, Tail(ks))

\* optimize_cache: the keys of the entries not accessed for stale_threshold
\* seconds, in cache order
StaleByTimestamp ==
    EntryKeys(SelectSeq(cache, LAMBDA e : now - e.timestamp > stale_threshold))
stale_keys == EntryKeys(SelectSeq(cache, LAMBDA e : now - e.last_access > stale_threshold))

\* LRUCache.optimize_cache
optimize_cache ==
    LET s == RemoveKeys(Store, stale_keys)
    IN  /\ cache' = s.cache
        /\ total_size' = s.total_size
        /\ related_keys' = PruneRelated(related_keys, stale_keys)
        /\ result' = Result("optimize_cache", NoValue, None, TRUE, NoValue, stale_keys)
        /\ Used(<<>>)
        /\ UNCHANGED <<now, linked>>

\* the clock advances while the cache is idle
CacheStep == 1801
CacheTick == Advance(CacheStep) /\ UNCHANGED cacheVars

----------------------------------------------------------------------------
(* LRUCache: the access counts, the access history and the hit and miss
   counters that get, put and optimize_cache keep beside the entries *)

\* _track_access_pattern keeps the last 10 access times of a key
max_access_history == 10

\* no get_preload_candidates call yet
NoCandidates == [limit |-> None, at |-> None, keys |-> <<>>]

\* self._access_patterns[key], [] for a key not tracked
TimesOf(patterns, key) ==
    LET found == SelectSeq(patterns, LAMBDA p : p.key = key)
    IN  IF found = <<>> THEN <<>> ELSE Head(found).times

\* times[-n:]
LastTimes(times, n) ==
    IF Len(times) > n THEN SubSeq(times, Len(times) - n + 1, Len(times)) ELSE times

\* LRUCache._track_access_pattern(key) at the time t
KeepAllTimes(patterns, key, t) ==
    IF \E i \in DOMAIN patterns : patterns[i].key = key
    THEN [i \in DOMAIN patterns |->
             IF patterns[i].key = key
             THEN [patterns[i] EXCEPT !.times = Append(@, t)]
             ELSE patterns[i]]
    ELSE Append(patterns, [key |-> key, times |-> <<t>>])
_track_access_pattern(patterns, key, t) ==
    IF \E i \in DOMAIN patterns : patterns[i].key = key
    THEN [i \in DOMAIN patterns |->
             IF patterns[i].key = key
             THEN [patterns[i] EXCEPT
                      !.times = LastTimes(Append(@, t), max_access_history)]
             ELSE patterns[i]]
    ELSE Append(patterns, [key |-> key, times |-> <<t>>])

\* the access counts of the entries the cache holds after a call
CountsOf(counts, entries) ==
    [k \in Keys |-> IF k \in CachedKeys(entries) THEN counts[k] ELSE 0]

\* LRUCache.get(key) with its counters: a key without an entry is a miss; an
\* expired entry is removed and nothing is counted; a hit touches the entry,
\* tracks the access and counts a hit
get_counted(key) ==
    /\ get(key)
    /\ get_calls' = get_calls + 1
    /\ candidates' = candidates
    /\ IF key \notin CachedKeys(cache)
       THEN /\ miss_count' = miss_count + 1
            /\ UNCHANGED <<hit_count, access_counts, access_patterns, access_log>>
       ELSE IF is_expired(EntryOf(cache, key), default_ttl)
            THEN /\ access_counts' = CountsOf(access_counts, cache')
                 /\ UNCHANGED <<hit_count, miss_count, access_patterns, access_log>>
            ELSE /\ access_counts' = [access_counts EXCEPT ![key] = @ + 1]
                 /\ access_patterns' = _track_access_pattern(access_patterns, key, now)
                 /\ access_log' = [access_log EXCEPT ![key] = Append(@, now)]
                 /\ hit_count' = hit_count + 1
                 /\ UNCHANGED miss_count

\* LRUCache.put(key, value, ttl) with the access counts: the new entry starts
\* with access_count 0, and the access history is left alone
put_counted(key, value, ttl) ==
    /\ put(key, value, ttl)
    /\ access_counts' =
           CountsOf(IF result'.ok THEN [access_counts EXCEPT ![key] = 0]
                    ELSE access_counts, cache')
    /\ UNCHANGED <<access_patterns, access_log, hit_count, miss_count, get_calls,
                   candidates>>

\* LRUCache.optimize_cache with the access history: the history of every
\* stale key is deleted
optimize_cache_counted ==
    /\ optimize_cache
    /\ access_patterns' =
           SelectSeq(access_patterns, LAMBDA p : p.key \notin SeqToSet(stale_keys))
    /\ access_log' = [k \in Keys |->
                         IF k \in SeqToSet(stale_keys) THEN <<>> ELSE access_log[k]]
    /\ access_counts' = CountsOf(access_counts, cache')
    /\ UNCHANGED <<hit_count, miss_count, get_calls, candidates>>

\* LRUCache.clear with the access counts: the entries go, the access
\* history stays
clear_counted ==
    /\ clear
    /\ access_counts' = CountsOf(access_counts, cache')
    /\ UNCHANGED <<access_patterns, access_log, hit_count, miss_count, get_calls,
                   candidates>>

\* get_preload_candidates needs at least 3 recorded accesses of a key
min_accesses == 3

\* get_preload_candidates: sum(intervals), the time from the first recorded
\* access to the last, and len(intervals)
Span(times) == times[Len(times)] - times[1]
Intervals(times) == Len(times) - 1

\* get_preload_candidates: current_time >= predicted_next - avg_interval * 0.2
\* where avg_interval = Span / Intervals and predicted_next = last + avg_interval,
\* multiplied by 5 * Intervals
CloseToPredicted(times, t) ==
    5 * Intervals(times) * (t - times[Len(times)]) >= 4 * Span(times)

\* get_preload_candidates: predicted_next - current_time of p is less than
\* that of q, both multiplied by Intervals(p) * Intervals(q)
Sooner(p, q, t) ==
    ((p.times[Len(p.times)] - t) * Intervals(p.times) + Span(p.times)) * Intervals(q.times)
        < ((q.times[Len(q.times)] - t) * Intervals(q.times) + Span(q.times))
              * Intervals(p.times)

\* candidates.sort(key=lambda x: x[1]): soonest first, equal ones in the
\* order they had
RECURSIVE SortedBySooner(_, _)
SortedBySooner(ps, t) ==
    IF ps = <<>> THEN <<>>
    ELSE LET i == CHOOSE i \in 1..Len(ps) :
                      /\ \A j \in 1..Len(ps) : ~Sooner(ps[j], ps[i], t)
                      /\ \A j \in 1..(i - 1) : Sooner(ps[i], ps[j], t)
         IN  <<ps[i]>> \o SortedBySooner(
                 SubSeq(ps, 1, i - 1) \o SubSeq(ps, i + 1, Len(ps)), t)

\* candidates[:limit]
FirstOf(q, limit) == IF Len(q) > limit THEN SubSeq(q, 1, limit) ELSE q

\* LRUCache.get_preload_candidates(limit)
get_preload_candidates(limit) ==
    LET found == SelectSeq(access_patterns,
                           LAMBDA p : /\ Len(p.times) >= min_accesses
                                      /\ CloseToPredicted(p.times, now)
                                      /\ p.key \notin CachedKeys(cache))
    IN  /\ candidates' = [limit |-> limit, at |-> now,
                          keys |-> EntryKeys(FirstOf(SortedBySooner(found, now), limit))]
        /\ UNCHANGED <<now, cacheVars, access_counts, access_patterns, access_log,
                       hit_count, miss_count, get_calls>>

\* a second passes while the cache is idle, or in the end a whole hour
PreloadTick(seconds) ==
    /\ IF seconds = 1 THEN now < MaxTicks ELSE now = MaxTicks
    /\ now' = now + seconds
    /\ UNCHANGED <<cacheVars, statVars>>

\* LRUCache.get_stats(): the counts it reports
get_stats == [hit_count |-> hit_count, miss_count |-> miss_count,
              size |-> Len(cache)]

\* a second passes while the cache is idle
HistoryTick ==
    /\ now < MaxTicks
    /\ now' = now + 1
    /\ UNCHANGED <<cacheVars, statVars>>

----------------------------------------------------------------------------
(* PerformanceManager: auto_optimize and cleanup *)

\* config.get('optimization_interval', 300)
optimization_interval == 300

\* no auto_optimize call yet
NotOptimized == [at |-> None, last |-> None, ran |-> FALSE, raised |-> FALSE]

\* auto_optimize: it is not yet time for an optimization
TooSoon(t, last) == t - last < optimization_interval

\* PerformanceManager.auto_optimize: False before the interval has elapsed;
\* otherwise optimize_cache, then MemoryOptimizer.optimize_memory, whose
\* `import psutil` raises when the module is missing, then the timestamp
auto_optimize ==
    IF TooSoon(now, last_optimization)
    THEN /\ optimized' = [at |-> now, last |-> last_optimization, ran |-> FALSE,
                          raised |-> FALSE]
         /\ UNCHANGED <<now, cacheVars, psutil, last_optimization, passes>>
    ELSE /\ Len(passes) < MaxPasses
         /\ optimize_cache
         /\ passes' = Append(passes, now)
         /\ last_optimization' = IF psutil THEN now ELSE last_optimization
         /\ optimized' = [at |-> now, last |-> last_optimization, ran |-> TRUE,
                          raised |-> ~psutil]
         /\ UNCHANGED psutil

\* the clock of the performance manager is read a second before and at
\* each multiple of the interval, and once after the entries have gone stale
PerformanceTick(seconds) ==
    /\ IF seconds = stale_threshold + 1
       THEN now <= stale_threshold
       ELSE /\ (now % (stale_threshold + 1)) + seconds <= MaxTicks * optimization_interval
            /\ (seconds = 1) = ((now % (stale_threshold + 1)) % optimization_interval
                                    = optimization_interval - 1)
    /\ now' = now + seconds
    /\ UNCHANGED <<cacheVars, perfVars>>

----------------------------------------------------------------------------
(* RequestDebouncer *)

DebKeys == {"ka", "kb"}

\* RequestDebouncer(delay=2.0)
delay == 2

\* threading.Timer(self.delay, func, args, kwargs) followed by start(): the
\* thread waits on its `finished` event for `interval` seconds.  `cancelled`
\* (history) tells that cancel(key) or cancel_all() reached the timer; `runs`
\* counts the invocations of func
Timer ==
    [started |-> mono, finished |-> FALSE, pc |-> "wait",
     cancelled |-> FALSE, runs |-> 0]

\* the number of Timer objects created so far
RECURSIVE TimerCount(_)
TimerCount(ks) ==
    IF ks = {} THEN 0
    ELSE LET k == CHOOSE x \in ks : TRUE IN Len(threads[k]) + TimerCount(ks \ {k})

\* the time at which finished.wait(interval) times out
BrokenDeadline(t) == t.started + 2 * delay
deadline(t) == t.started + delay

\* Timer.cancel(): self.finished.set()
Timer_untouched(t) == t
Timer_cancel(t) == [t EXCEPT !.finished = TRUE]

\* self._timers[key].cancel(), if the key has an entry; by_cancel tells the
\* calls made by cancel and cancel_all from the one made by debounce
KeepCurrent(th, key, by_cancel) == th
CancelCurrent(th, key, by_cancel) ==
    IF timers[key] = 0 THEN th
    ELSE [th EXCEPT ![key][timers[key]] =
             [Timer_cancel(@) EXCEPT !.cancelled = @ \/ by_cancel]]

\* RequestDebouncer.debounce(key, func), under self._lock
debounce(key) ==
    /\ TimerCount(DebKeys) < MaxTimers
    /\ mono + delay <= MaxMono
    /\ threads' = [CancelCurrent(threads, key, FALSE) EXCEPT ![key] = Append(@, Timer)]
    /\ timers' = [timers EXCEPT ![key] = Len(threads[key]) + 1]
    /\ UNCHANGED mono

\* RequestDebouncer.cancel(key), under self._lock
cancel(key) ==
    /\ threads' = CancelCurrent(threads, key, TRUE)
    /\ timers' = [timers EXCEPT ![key] = 0]
    /\ UNCHANGED mono

\* RequestDebouncer.cancel_all(), under self._lock
cancel_all ==
    /\ threads' = [k \in DebKeys |-> CancelCurrent(threads, k, TRUE)[k]]
    /\ timers' = [k \in DebKeys |-> 0]
    /\ UNCHANGED mono

\* PerformanceManager.cleanup: cleanup_expired, optimize_cache (which finds
\* nothing stale once the expired entries are gone, stale_threshold being no
\* less than default_ttl), cancel_all, optimize_memory and the timestamp
performance_cleanup ==
    /\ cleanup_expired
    /\ cancel_all
    /\ last_optimization' = IF psutil THEN now ELSE last_optimization
    /\ UNCHANGED <<psutil, optimized, passes>>

\* Timer.run: finished.wait(interval) returns because the event was set
TimerCancelled(key, i) ==
    /\ threads[key][i].pc = "wait"
    /\ threads[key][i].finished
    /\ threads' = [threads EXCEPT ![key][i].pc = "done"]
    /\ UNCHANGED <<mono, timers>>

\* Timer.run: finished.wait(interval) times out and the event is found unset
TimerExpire(key, i) ==
    /\ threads[key][i].pc = "wait"
    /\ ~threads[key][i].finished
    /\ mono >= deadline(threads[key][i])
    /\ threads' = [threads EXCEPT ![key][i].pc = "call"]
    /\ UNCHANGED <<mono, timers>>

\* Timer.run: self.function(*args, **kwargs), then self.finished.set()
TimerCall(key, i) ==
    /\ threads[key][i].pc = "call"
    /\ threads' = [threads EXCEPT ![key][i] =
                      [@ EXCEPT !.pc = "done", !.finished = TRUE, !.runs = @ + 1]]
    /\ UNCHANGED <<mono, timers>>

\* a timer thread that has a step to take now
Runnable(t) ==
    \/ t.pc = "call"
    \/ t.pc = "wait" /\ (t.finished \/ mono >= deadline(t))

\* a second passes on the timer clock; a thread that is due runs within the
\* second in which it falls due
DebTick ==
    /\ mono < MaxMono
    /\ \A k \in DebKeys : \A i \in 1..Len(threads[k]) : ~Runnable(threads[k][i])
    /\ mono' = mono + 1
    /\ UNCHANGED <<timers, threads>>

TimerStep ==
    \/ \E k \in DebKeys : \E i \in 1..Len(threads[k]) : TimerCancelled(k, i)
    \/ \E k \in DebKeys : \E i \in 1..Len(threads[k]) : TimerExpire(k, i)
    \/ \E k \in DebKeys : \E i \in 1..Len(threads[k]) : TimerCall(k, i)

(* RequestDebouncer.debounce called from several threads: the statements of
   one call, each a step of its caller *)

Callers == {"t1", "t2"}

\* a caller that is not inside debounce
Idle == [pc |-> "idle", key |-> NoValue, timer |-> 0]

\* self._lock = threading.Lock(), held by nobody
NoHolder == "nobody"

\* threading.Lock.acquire: a caller enters only while nobody holds the lock
AlwaysAcquire(holder) == TRUE
CanAcquire(holder) == holder = NoHolder

\* the callers that are inside debounce and have not created their timer yet
Entering == {c \in Callers : callers[c].pc \in {"lock", "cancel", "create"}}

\* a thread calls debounce(key, func)
debounce_call(c, key) ==
    /\ callers[c].pc = "idle"
    /\ TimerCount(DebKeys) + Cardinality(Entering) < MaxTimers
    /\ mono + delay <= MaxMono
    /\ callers' = [callers EXCEPT ![c] = [pc |-> "lock", key |-> key, timer |-> 0]]
    /\ UNCHANGED <<debVars, lock, stopped>>

\* with self._lock:
debounce_acquire(c) ==
    /\ callers[c].pc = "lock"
    /\ CanAcquire(lock)
    /\ lock' = c
    /\ callers' = [callers EXCEPT ![c].pc = "cancel"]
    /\ UNCHANGED <<debVars, stopped>>

\* the timer of the key that is cancelled while it still waits for its delay
StoppedEarly(key) ==
    IF /\ timers[key] # 0
       /\ ~threads[key][timers[key]].finished
       /\ threads[key][timers[key]].pc \in {"new", "wait"}
       /\ mono < deadline(threads[key][timers[key]])
    THEN {<<key, timers[key]>>}
    ELSE {}

\* if key in self._timers: self._timers[key].cancel()
debounce_cancel(c) ==
    /\ callers[c].pc = "cancel"
    /\ threads' = CancelCurrent(threads, callers[c].key, FALSE)
    /\ stopped' = stopped \cup StoppedEarly(callers[c].key)
    /\ callers' = [callers EXCEPT ![c].pc = "create"]
    /\ UNCHANGED <<mono, timers, lock>>

\* timer = threading.Timer(...); self._timers[key] = timer
debounce_install(c) ==
    /\ callers[c].pc = "create"
    /\ threads' = [threads EXCEPT ![callers[c].key] =
                      Append(@, [Timer EXCEPT !.pc = "new"])]
    /\ timers' = [timers EXCEPT ![callers[c].key] = Len(threads[callers[c].key]) + 1]
    /\ callers' = [callers EXCEPT ![c].pc = "start",
                                  ![c].timer = Len(threads[callers[c].key]) + 1]
    /\ UNCHANGED <<mono, lock, stopped>>

\* timer.start(): the timer thread begins to wait
debounce_start(c) ==
    /\ callers[c].pc = "start"
    /\ threads' = [threads EXCEPT ![callers[c].key][callers[c].timer] =
                      [@ EXCEPT !.pc = "wait", !.started = mono]]
    /\ callers' = [callers EXCEPT ![c].pc = "release"]
    /\ UNCHANGED <<mono, timers, lock, stopped>>

\* the end of the with block: the lock is released by the caller holding it
debounce_release(c) ==
    /\ callers[c].pc = "release"
    /\ lock' = IF lock = c THEN NoHolder ELSE lock
    /\ callers' = [callers EXCEPT ![c] = Idle]
    /\ UNCHANGED <<debVars, stopped>>

(* The cache called from several threads: a method that takes self._lock is
   an acquire step, its body and a release step; add_related_key, which
   takes no lock, is a step for each of its statements *)

\* the keys the threads put, get and invalidate
LockedKeys == {"k1", "k2"}

\* a thread that is not inside a cache method
Outside == [pc |-> "idle", key1 |-> NoValue, key2 |-> NoValue]

\* threading.RLock.acquire: free, or held by the same thread
CanEnter(holder, t) == holder \in {NoHolder, t}

\* with self._lock: at the head of get, put, invalidate_related, optimize_cache
cache_acquire(t) ==
    /\ positions[t].pc = "idle"
    /\ CanEnter(cache_lock, t)
    /\ cache_lock' = t
    /\ positions' = [positions EXCEPT ![t].pc = "body"]
    /\ UNCHANGED <<now, cacheVars, written>>

\* the body of the with block of one of the locking methods
cache_body(t) ==
    /\ positions[t].pc = "body"
    /\ \/ \E k \in LockedKeys : put(k, "a", None)
       \/ \E k \in LockedKeys : get(k)
       \/ \E k \in LockedKeys : invalidate_related(k)
       \/ optimize_cache
    /\ written' = [by |-> t, holder |-> cache_lock]
    /\ positions' = [positions EXCEPT ![t].pc = "release"]
    /\ UNCHANGED cache_lock

\* the end of the with block
cache_release(t) ==
    /\ positions[t].pc = "release"
    /\ cache_lock' = IF cache_lock = t THEN NoHolder ELSE cache_lock
    /\ positions' = [positions EXCEPT ![t] = Outside]
    /\ UNCHANGED <<now, cacheVars, written>>

\* a thread calls add_related_key(key1, key2)
link_call(t, key1, key2) ==
    /\ positions[t].pc = "idle"
    /\ positions' = [positions EXCEPT ![t] = [pc |-> "ensure1", key1 |-> key1, key2 |-> key2]]
    /\ linked' = linked \cup {<<key1, key2>>}
    /\ UNCHANGED <<now, cache, total_size, related_keys, use_order, result,
                   cache_lock, written>>

\* if key not in self._related_keys: self._related_keys[key] = set()
link_ensure(t, pc, key, next) ==
    /\ positions[t].pc = pc
    /\ IF key \in DOMAIN related_keys
       THEN UNCHANGED <<related_keys, written>>
       ELSE /\ related_keys' = [k \in DOMAIN related_keys \cup {key} |->
                                   IF k = key THEN {} ELSE related_keys[k]]
            /\ written' = [by |-> t, holder |-> cache_lock]
    /\ positions' = [positions EXCEPT ![t].pc = next]
    /\ UNCHANGED <<now, cache, total_size, linked, use_order, result, cache_lock>>

\* self._related_keys[key].add(other); KeyError when the set of key is gone
link_add(t, pc, key, other, next) ==
    /\ positions[t].pc = pc
    /\ IF key \in DOMAIN related_keys
       THEN /\ related_keys' = [related_keys EXCEPT ![key] = @ \cup {other}]
            /\ written' = [by |-> t, holder |-> cache_lock]
            /\ positions' = [positions EXCEPT ![t] =
                                IF next = "idle" THEN Outside ELSE [@ EXCEPT !.pc = next]]
            /\ result' = IF next = "idle"
                         THEN Result("add_related_key", positions[t].key1, None, TRUE,
                                     NoValue, <<positions[t].key2>>)
                         ELSE result
       ELSE /\ positions' = [positions EXCEPT ![t] = Outside]
            /\ result' = Result("add_related_key", positions[t].key1, None, FALSE,
                                NoValue, <<positions[t].key2>>)
            /\ UNCHANGED <<related_keys, written>>
    /\ UNCHANGED <<now, cache, total_size, linked, use_order, cache_lock>>

\* the four statements of add_related_key, in order
link_step(t) ==
    \/ link_ensure(t, "ensure1", positions[t].key1, "ensure2")
    \/ link_ensure(t, "ensure2", positions[t].key2, "add1")
    \/ link_add(t, "add1", positions[t].key1, positions[t].key2, "add2")
    \/ link_add(t, "add2", positions[t].key2, positions[t].key1, "idle")

\* the clock advances, whatever the threads are doing
ThreadsTick == CacheTick /\ UNCHANGED rlockVars

----------------------------------------------------------------------------
(* Conversation and the conversations of AIAgent (core/agent.py) *)

AgentTypes == {"code_assistant"}
Messages == {"m1", "m2"}
\* Conversation.max_turns, the number of turns kept in memory (50 by default;
\* a conversation of two turns here)
max_turns == 2

\* a ConversationTurn: when it was added and what the user said
ConversationTurn(user_message) ==
    [timestamp |-> now, user_message |-> user_message]

\* a ConversationTurn whose assistant_response is None: _parse_response
\* takes message.get('content', ''), which is None for "content": null, and
\* _handle_single_response stores it as the turn's response
TurnWithoutResponse(user_message) ==
    [timestamp |-> now, user_message |-> user_message, assistant_response |-> None]

\* Conversation.get_memory_usage raises: len(turn.assistant_response) of a
\* turn whose response is None is a TypeError
Unmeasurable(conversation) ==
    \E i \in DOMAIN conversation.turns :
        "assistant_response" \in DOMAIN conversation.turns[i]

\* a new Conversation, as start_conversation constructs it
Conversation(id, agent_type) ==
    [id |-> id, agent_type |-> agent_type, state |-> "idle", turns |-> <<>>,
     updated_at |-> now, last_activity |-> now, max_turns |-> max_turns]

\* f"{agent_type}_{int(time.time())}"
conversation_id(agent_type) == <<agent_type, now>>
\* None, as a conversation id
NoConversation == <<NoValue, None>>

\* dict assignment d[k] = v
Assign(d, k, v) == [x \in DOMAIN d \cup {k} |-> IF x = k THEN v ELSE d[x]]

\* the number of turns all live conversations were given
RECURSIVE Appended(_, _)
Appended(log, ids) ==
    IF ids = {} THEN 0
    ELSE LET id == CHOOSE x \in ids : TRUE
         IN  Len(log[id]) + Appended(log, ids \ {id})

\* turns[excess_turns:] when there are more than max turns
KeepOldest(turns, max) ==
    IF Len(turns) > max THEN SubSeq(turns, 1, max) ELSE turns
KeepNewest(turns, max) ==
    IF Len(turns) > max
    THEN SubSeq(turns, Len(turns) - max + 1, Len(turns))
    ELSE turns

\* AIAgent.start_conversation(agent_type)
start_conversation(agent_type) ==
    LET id == conversation_id(agent_type)
    IN  /\ conversations' = Assign(conversations, id, Conversation(id, agent_type))
        /\ active_conversation' = id
        /\ turn_log' = Assign(turn_log, id, <<>>)
        /\ conv_order' = IF id \in DOMAIN conversations
                         THEN conv_order ELSE Append(conv_order, id)
        /\ UNCHANGED <<now, swept>>

\* Conversation.add_turn(user_message, ...) on the conversation `id`
add_turn(id, user_message) ==
    /\ id \in DOMAIN conversations
    /\ Appended(turn_log, DOMAIN turn_log) < MaxAppends
    /\ LET c == conversations[id]
           turn == ConversationTurn(user_message)
       IN  /\ conversations' =
                 [conversations EXCEPT ![id] =
                     [c EXCEPT !.turns = KeepNewest(Append(c.turns, turn), c.max_turns),
                               !.updated_at = now,
                               !.last_activity = now]]
           /\ turn_log' = [turn_log EXCEPT ![id] = Append(@, turn)]
    /\ UNCHANGED <<now, active_conversation, conv_order, swept>>

\* Conversation.add_turn(user_message, None) on the conversation `id`: the
\* turn of a successful response that had no content
add_turn_without_response(id, user_message) ==
    /\ id \in DOMAIN conversations
    /\ Appended(turn_log, DOMAIN turn_log) < MaxAppends
    /\ LET c == conversations[id]
           turn == TurnWithoutResponse(user_message)
       IN  /\ conversations' =
                 [conversations EXCEPT ![id] =
                     [c EXCEPT !.turns = KeepNewest(Append(c.turns, turn), c.max_turns),
                               !.updated_at = now,
                               !.last_activity = now]]
           /\ turn_log' = [turn_log EXCEPT ![id] = Append(@, turn)]
    /\ UNCHANGED <<now, active_conversation, conv_order, swept>>

\* Conversation.trim_to_size(max_turns) on the conversation `id`
trim_to_size(id, max_arg) ==
    /\ id \in DOMAIN conversations
    /\ LET c == conversations[id]
           max == IF max_arg = None THEN c.max_turns ELSE max_arg
       IN  conversations' =
               [conversations EXCEPT ![id] =
                   IF Len(c.turns) > max
                   THEN [c EXCEPT !.turns = KeepNewest(c.turns, max),
                                  !.updated_at = now]
                   ELSE c]
    /\ UNCHANGED <<now, active_conversation, turn_log, conv_order, swept>>

\* AIAgent.end_conversation(conversation_id)
end_conversation(id) ==
    /\ IF id \in DOMAIN conversations
       THEN /\ conversations' = [conversations EXCEPT ![id].state = "completed"]
            /\ active_conversation' =
                   IF active_conversation = id THEN NoConversation ELSE active_conversation
       ELSE UNCHANGED <<conversations, active_conversation>>
    /\ UNCHANGED <<now, turn_log, conv_order, swept>>

\* AIAgent.clear_conversations
clear_conversations ==
    /\ conversations' = [id \in {} |-> {}]
    /\ active_conversation' = NoConversation
    /\ turn_log' = [id \in {} |-> <<>>]
    /\ conv_order' = <<>>
    /\ UNCHANGED <<now, swept>>

\* the configuration _cleanup_conversations reads:
\* performance.memory.max_conversations (10 by default; two here)
max_conversations == 2
\* performance.memory.max_conversation_age_hours, in seconds
max_conversation_age == 86400
\* performance.memory.max_memory_mb, in bytes (200 MB by default; the
\* estimated size of three turns here)
max_total_memory_bytes == 24

\* Conversation.get_memory_usage: estimated_bytes (the assistant's responses,
\* the contexts and the reasoning are empty)
RECURSIVE total_chars(_)
total_chars(turns) ==
    IF turns = <<>> THEN 0
    ELSE Len(Head(turns).user_message) + total_chars(Tail(turns))
estimated_bytes(conversation) == total_chars(conversation.turns) * 4

\* the sum of a function of ids over a sequence of ids
RECURSIVE SumOver(_, _)
SumOver(ids, size) ==
    IF ids = <<>> THEN 0 ELSE size[Head(ids)] + SumOver(Tail(ids), size)

\* sorted(..., key=..., reverse=True): largest key first, equal keys in the
\* order they had
InDictOrder(ids, key) == ids
RECURSIVE SortedReverse(_, _)
SortedReverse(ids, key) ==
    IF ids = <<>> THEN <<>>
    ELSE LET i == CHOOSE i \in 1..Len(ids) :
                      /\ \A j \in 1..Len(ids) : key[ids[j]] <= key[ids[i]]
                      /\ \A j \in 1..(i - 1) : key[ids[j]] < key[ids[i]]
         IN  <<ids[i]>> \o SortedReverse(
                 SubSeq(ids, 1, i - 1) \o SubSeq(ids, i + 1, Len(ids)), key)

\* _cleanup_conversations, the age rule: the ids whose conversation was last
\* active before the cutoff
aged_out(convs, order) ==
    SelectSeq(order, LAMBDA id : convs[id].last_activity < now - max_conversation_age)

\* _cleanup_conversations, the memory rule: the ids removed, largest first,
\* while the total is over the limit
RemovedAllListed(conversation_sizes, size, total) == conversation_sizes
RECURSIVE RemovedForMemory(_, _, _)
RemovedForMemory(conversation_sizes, size, total) ==
    IF total > max_total_memory_bytes /\ conversation_sizes # <<>>
    THEN <<Head(conversation_sizes)>>
             \o RemovedForMemory(Tail(conversation_sizes), size,
                                 total - size[Head(conversation_sizes)])
    ELSE <<>>
too_large(convs, order) ==
    LET size == [id \in SeqToSet(order) |-> estimated_bytes(convs[id])]
        total == SumOver(order, size)
    IN  IF total > max_total_memory_bytes
        THEN RemovedForMemory(SortedReverse(order, size), size, total)
        ELSE <<>>

\* _cleanup_conversations, the count rule: the ids after the
\* max_conversations most recently active ones
excess(convs, order) ==
    LET activity == [id \in SeqToSet(order) |-> convs[id].last_activity]
        sorted_conversations == SortedReverse(order, activity)
    IN  IF Len(order) > max_conversations
        THEN SubSeq(sorted_conversations, max_conversations + 1, Len(order))
        ELSE <<>>

\* a sequence of ids without the ids of another
Without(order, removed) == SelectSeq(order, LAMBDA id : id \notin SeqToSet(removed))

\* no _cleanup_conversations yet
NoSweep == [aged |-> <<>>, large |-> <<>>, excess |-> <<>>, at |-> None,
            raised |-> FALSE]

\* AIAgent._cleanup_conversations: the age rule deletes first; the memory
\* loop then asks every conversation left for get_memory_usage(), and an
\* exception there leaves the function (nothing in it catches one) before the
\* memory, count and trim steps
_cleanup_conversations ==
    LET aged == aged_out(conversations, conv_order)
        order1 == Without(conv_order, aged)
    IN  IF \E id \in SeqToSet(order1) : Unmeasurable(conversations[id])
        THEN /\ conv_order' = order1
             /\ conversations' = [id \in SeqToSet(order1) |-> conversations[id]]
             /\ turn_log' = [id \in SeqToSet(order1) |-> turn_log[id]]
             /\ swept' = [aged |-> aged, large |-> <<>>, excess |-> <<>>,
                          at |-> now, raised |-> TRUE]
             /\ UNCHANGED <<now, active_conversation>>
        ELSE
    LET large == too_large(conversations, order1)
        order2 == Without(order1, large)
        extra == excess(conversations, order2)
        order3 == Without(order2, extra)
    IN  /\ conv_order' = order3
        /\ conversations' =
               [id \in SeqToSet(order3) |->
                   LET c == conversations[id]
                   IN  IF Len(c.turns) > c.max_turns
                       THEN [c EXCEPT !.turns = KeepNewest(c.turns, c.max_turns),
                                      !.updated_at = now]
                       ELSE c]
        /\ turn_log' = [id \in SeqToSet(order3) |-> turn_log[id]]
        /\ swept' = [aged |-> aged, large |-> large, excess |-> extra, at |-> now,
                     raised |-> FALSE]
        /\ UNCHANGED <<now, active_conversation>>

\* time passes while the agent is idle: a second (three conversations can
\* be started in different seconds), or in the end the whole age limit
SweepTick(seconds) ==
    /\ IF seconds = max_conversation_age
       THEN now < max_conversation_age
       ELSE now + seconds <= MaxSeconds + 1
    /\ now' = now + seconds
    /\ UNCHANGED convVars

\* a second passes while the agent is idle
ConvTick ==
    /\ now < MaxSeconds
    /\ now' = now + 1
    /\ UNCHANGED convVars

----------------------------------------------------------------------------
(* ErrorRecoveryManager and the with_error_handling wrapper                *)
(* (utils/error_handling.py)                                               *)

Ops == {"conversation_api"}
\* ErrorRecoveryManager(max_errors_per_hour=3) (50 by default)
max_errors_per_hour == 3
\* _cleanup_old_errors keeps the errors of the last hour
error_window == 3600
\* trip_circuit_breaker: the default of timeout_seconds
default_timeout_seconds == 300
\* timeout_seconds arguments of trip_circuit_breaker
TimeoutArgs == {2, default_timeout_seconds}
\* the wrapper as continue_conversation is decorated with it
retry_count == 2
retry_delay == 1

\* get_circuit_breaker_state
get_circuit_breaker_state(cbs, operation) ==
    IF operation \in DOMAIN cbs THEN cbs[operation].state ELSE "closed"

\* check_circuit_breaker: has the timeout passed at time t
ComparedWithClock(breaker, t) == t > breaker.timeout_seconds
AtTimeout(breaker, t) == t - breaker.tripped_at >= breaker.timeout_seconds
TimeoutPassed(breaker, t) == t - breaker.tripped_at > breaker.timeout_seconds

\* check_circuit_breaker at time t: the breakers after it, and what it returns
Checked(cbs, operation, t) ==
    IF operation \notin DOMAIN cbs \/ cbs[operation].state = "closed"
    THEN [cbs |-> cbs, ok |-> TRUE]
    ELSE IF TimeoutPassed(cbs[operation], t)
         THEN [cbs |-> [cbs EXCEPT ![operation].state = "half-open"], ok |-> TRUE]
         ELSE [cbs |-> cbs, ok |-> FALSE]

\* trip_circuit_breaker at time t: the breakers after it
KeepTrippedAt(cbs, operation, t, timeout_seconds) ==
    Assign(cbs, operation,
           [state |-> "open",
            tripped_at |-> IF operation \in DOMAIN cbs THEN cbs[operation].tripped_at ELSE t,
            timeout_seconds |-> timeout_seconds])
TrippedAll(cbs, operation, t, timeout_seconds) ==
    [o \in DOMAIN cbs \cup {operation} |->
        [state |-> "open", tripped_at |-> t, timeout_seconds |-> timeout_seconds]]
Tripped(cbs, operation, t, timeout_seconds) ==
    Assign(cbs, operation,
           [state |-> "open", tripped_at |-> t, timeout_seconds |-> timeout_seconds])

\* reset_circuit_breaker: the breakers after it
KeepState(cbs, operation) == cbs
Reset(cbs, operation) ==
    IF operation \in DOMAIN cbs THEN [cbs EXCEPT ![operation].state = "closed"] ELSE cbs

\* record_error at time t: the error history and the degraded features after it
DegradedAtThreshold(em, t) ==
    LET history == SelectSeq(Append(em.error_history, t),
                             LAMBDA e : e > t - error_window)
    IN  [error_history |-> history,
         degraded_features |->
             IF Len(history) >= max_errors_per_hour
             THEN em.degraded_features
                      \cup {"streaming", "auto_context_analysis", "advanced_caching"}
             ELSE em.degraded_features]
Recorded(em, t) ==
    LET history == SelectSeq(Append(em.error_history, t),
                             LAMBDA e : e > t - error_window)
    IN  [error_history |-> history,
         degraded_features |->
             IF Len(history) > max_errors_per_hour
             THEN em.degraded_features
                      \cup {"streaming", "auto_context_analysis", "advanced_caching"}
             ELSE em.degraded_features]

\* the wrapper: when attempt number `attempt` (from 0) starts, having started at t
EvenlySpaced(t, attempt) == t + retry_delay * attempt
AttemptTime(t, attempt) == t + retry_delay * ((attempt * (attempt + 1)) \div 2)

\* the wrapper: when each of the first n attempts of a run started at t begins
InvokedAt(t, n) == [k \in 1..n |-> AttemptTime(t, k - 1)]

\* the wrapper: record_error for each of the first n attempts of a run started at t
RECURSIVE RecordedAttempts(_, _, _)
RecordedAttempts(em, t, n) ==
    IF n = 0 THEN em
    ELSE Recorded(RecordedAttempts(em, t, n - 1), AttemptTime(t, n - 1))

\* self.circuit_breakers.get(operation), with a record for the None of an
\* operation that has no breaker
NoBreaker == [state |-> "absent", tripped_at |-> None, timeout_seconds |-> None]
breaker_of(cbs, operation) ==
    IF operation \in DOMAIN cbs THEN cbs[operation] ELSE NoBreaker

\* no trip yet
NoTrip == [at |-> None, timeout_seconds |-> 0, by |-> "none", during |-> "closed"]

\* the latest call of the error manager or of the wrapper: what was called,
\* the breaker's state and latest trip before it, the state the operation ran
\* in, when it began, how many attempts failed and what it returned
Call(name, operation, before, during, failures, ok) ==
    [name |-> name, operation |-> operation, before |-> before, during |-> during,
     tripped |-> IF operation \in DOMAIN last_trip THEN last_trip[operation] ELSE NoTrip,
     at |-> now, failures |-> failures, ok |-> ok, invoked |-> <<>>]

\* ErrorRecoveryManager.trip_circuit_breaker(operation, timeout_seconds)
trip_circuit_breaker(operation, timeout_seconds) ==
    LET before == get_circuit_breaker_state(circuit_breakers, operation)
    IN  /\ circuit_breakers' = Tripped(circuit_breakers, operation, now, timeout_seconds)
        /\ last_trip' = Assign(last_trip, operation,
                               [at |-> now, timeout_seconds |-> timeout_seconds,
                                by |-> "trip", during |-> before])
        /\ call' = Call("trip", operation, before, before, 0, TRUE)
        /\ UNCHANGED <<now, error_history, degraded_features, error_log>>

\* ErrorRecoveryManager.check_circuit_breaker(operation)
check_circuit_breaker(operation) ==
    LET before == get_circuit_breaker_state(circuit_breakers, operation)
        check == Checked(circuit_breakers, operation, now)
    IN  /\ circuit_breakers' = check.cbs
        /\ call' = Call("check", operation, before, before, 0, check.ok)
        /\ UNCHANGED <<now, error_history, degraded_features, last_trip, error_log>>

\* ErrorRecoveryManager.reset_circuit_breaker(operation)
reset_circuit_breaker(operation) ==
    LET before == get_circuit_breaker_state(circuit_breakers, operation)
    IN  /\ circuit_breakers' = Reset(circuit_breakers, operation)
        /\ call' = Call("reset", operation, before, before, 0, TRUE)
        /\ UNCHANGED <<now, error_history, degraded_features, last_trip, error_log>>

\* a call of a function decorated with with_error_handling(retry_count,
\* retry_delay, circuit_breaker = operation), whose first `failures` attempts
\* raise (all of them when failures = retry_count + 1)
wrapper(operation, failures) ==
    LET before == get_circuit_breaker_state(circuit_breakers, operation)
        check == Checked(circuit_breakers, operation, now)
        during == get_circuit_breaker_state(check.cbs, operation)
        em == RecordedAttempts([error_history |-> error_history,
                                degraded_features |-> degraded_features],
                               now, failures)
        succeeded == failures <= retry_count
        end == AttemptTime(now, IF succeeded THEN failures ELSE retry_count)
    IN  IF ~check.ok
        THEN /\ call' = Call("wrapper", operation, before, "blocked", 0, FALSE)
             /\ UNCHANGED <<now, circuit_breakers, error_history,
                            degraded_features, last_trip, error_log>>
        ELSE /\ (now % default_timeout_seconds) + (end - now) <= MaxBackoff
             /\ Len(error_history) + failures <= MaxErrors
             /\ now' = end
             /\ error_history' = em.error_history
             /\ error_log' = error_log \o InvokedAt(now, failures)
             /\ degraded_features' = em.degraded_features
             /\ circuit_breakers' =
                    IF succeeded
                    THEN IF failures > 0 THEN Reset(check.cbs, operation) ELSE check.cbs
                    ELSE Tripped(check.cbs, operation, end, default_timeout_seconds)
             /\ last_trip' =
                    IF succeeded THEN last_trip
                    ELSE Assign(last_trip, operation,
                                [at |-> end, timeout_seconds |-> default_timeout_seconds,
                                 by |-> "wrapper", during |-> during])
             /\ call' = [Call("wrapper", operation, before, during, failures, succeeded)
                            EXCEPT !.invoked =
                                InvokedAt(now, IF succeeded THEN failures + 1 ELSE failures)]

\* the values given as fallback_value: the default None, a falsy value and
\* a truthy one
Fallbacks == {NoValue, "", "fallback"}

\* no decorated function was called yet
NotCalled ==
    [operation |-> NoValue, fallback |-> NoValue, failures |-> 0, blocked |-> FALSE,
     how |-> "none", what |-> "none", attempt |-> 0, value |-> NoValue]

\* the wrapper, all attempts failed: is fallback_value returned
Truthy(fallback) == fallback \notin {NoValue, ""}
IsNotNone(fallback) == fallback # NoValue

\* the wrapper, all attempts failed: the attempt whose exception is raised
LastAttempt == retry_count + 1

\* how a call of the decorated function comes back: the fallback when the
\* breaker blocks it, the result of the first attempt that does not raise,
\* and after retry_count + 1 failures the fallback or last_exception
Outcome(operation, fallback, failures, blocked) ==
    LET back ==
            IF blocked
            THEN [how |-> "return", what |-> "fallback", attempt |-> 0, value |-> fallback]
            ELSE IF failures <= retry_count
            THEN [how |-> "return", what |-> "result", attempt |-> failures + 1,
                  value |-> NoValue]
            ELSE IF IsNotNone(fallback)
            THEN [how |-> "return", what |-> "fallback", attempt |-> 0, value |-> fallback]
            ELSE [how |-> "raise", what |-> "exception", attempt |-> LastAttempt,
                  value |-> NoValue]
    IN  [operation |-> operation, fallback |-> fallback, failures |-> failures,
         blocked |-> blocked, how |-> back.how, what |-> back.what,
         attempt |-> back.attempt, value |-> back.value]

\* a call of a function decorated with with_error_handling(retry_count,
\* retry_delay, fallback_value = fallback, circuit_breaker = operation):
\* the wrapper's effects and what the caller gets
decorated(operation, fallback, failures) ==
    /\ wrapper(operation, failures)
    /\ returned' = Outcome(operation, fallback, failures,
                           ~Checked(circuit_breakers, operation, now).ok)

(* AIAgent.continue_conversation (core/agent.py), decorated with
   with_error_handling(retry_count=2, retry_delay=1.0,
   circuit_breaker="conversation_api") *)

\* the breaker named in the decorator of continue_conversation
conversation_breaker == "conversation_api"

\* what happens to a request that is not streamed: an exception is thrown
\* before it is sent ("throw"), the response cache has it ("cached"),
\* chat_completion returns a response with success ("ok"), or, after a
\* timeout, a connection error or a bad status, without ("failed")
SingleCourses == {<<"throw">>, <<"cached">>, <<"ok">>, <<"failed">>}

\* what happens to a streamed request: the chunks chat_completion_stream
\* yields, each with content ("c"), with empty content ("") or reporting
\* failure ("fail"), or the generator raising ("raise")
StreamCourses ==
    {<<"throw">>, <<>>, <<"">>, <<"c">>, <<"c", "c">>, <<"fail">>, <<"c", "fail">>,
     <<"raise">>, <<"c", "raise">>}

\* _handle_streaming_response: the loop over the chunks, with the text
\* accumulated so far; the turn is added after the loop if there is text
StreamedSoFar(chunks, full_response) ==
    IF \E i \in 1..Len(chunks) : chunks[i] = "c"
    THEN [path |-> <<"waiting_for_input">>, success |-> TRUE, commit |-> TRUE,
          text |-> SelectSeq(chunks, LAMBDA x : x = "c")]
    ELSE [path |-> <<"error">>, success |-> FALSE, commit |-> FALSE, text |-> <<>>]
RECURSIVE Streamed(_, _)
Streamed(chunks, full_response) ==
    IF chunks = <<>>
    THEN IF full_response # <<>>
         THEN [path |-> <<"waiting_for_input">>, success |-> TRUE, commit |-> TRUE,
               text |-> full_response]
         ELSE [path |-> <<"error">>, success |-> FALSE, commit |-> FALSE,
               text |-> full_response]
    ELSE IF Head(chunks) \in {"fail", "raise"}
         THEN [path |-> <<"error">>, success |-> FALSE, commit |-> FALSE,
               text |-> full_response]
         ELSE Streamed(Tail(chunks),
                       IF Head(chunks) = "" THEN full_response
                       ELSE Append(full_response, Head(chunks)))

\* the body of continue_conversation for a conversation that exists: the
\* states it assigns in order, whether it adds the turn, whether its own
\* except clause records an error, and the success of the APIResponse
Answered(stream, course) ==
    IF course = <<"throw">>
    THEN [path |-> <<"thinking", "error">>, success |-> FALSE, commit |-> FALSE,
          recorded |-> TRUE, text |-> <<>>]
    ELSE IF ~stream
    THEN IF course = <<"cached">>
         THEN [path |-> <<"thinking", "waiting_for_input">>, success |-> TRUE,
               commit |-> TRUE, recorded |-> FALSE, text |-> <<"c">>]
         ELSE IF course = <<"ok">>
         THEN [path |-> <<"thinking", "responding", "waiting_for_input">>,
               success |-> TRUE, commit |-> TRUE, recorded |-> FALSE, text |-> <<"c">>]
         ELSE [path |-> <<"thinking", "responding", "error">>, success |-> FALSE,
               commit |-> FALSE, recorded |-> FALSE, text |-> <<>>]
    ELSE LET end == Streamed(course, <<>>)
         IN  [path |-> <<"thinking", "responding">> \o end.path, success |-> end.success,
              commit |-> end.commit, recorded |-> FALSE, text |-> end.text]

\* no continue_conversation call yet
\* PerformanceManager.smart_cache_key(agent_type, user_message, ""): the md5
\* of the agent type and the message in lower case, stripped; one key for
\* each such message of the one agent type
Normalized(user_message) == IF user_message = "M1" THEN "m1" ELSE user_message
smart_cache_key(agent_type, user_message) ==
    IF Normalized(user_message) = "m1" THEN "k1" ELSE "k2"

\* continue_conversation: `if cached_response:` after get_cached_response
NeverCached(key) == FALSE
CacheHit(key) == get_value(key) # NoValue

\* what the network layer does when it is asked
Networks == {"ok", "failed", "throw"}

\* the content of a response of the network layer
Content == "c"

NoExchange ==
    [id |-> NoConversation, found |-> FALSE, blocked |-> FALSE, stream |-> FALSE,
     course |-> <<>>, from |-> "none", path |-> <<>>, attempts |-> 0,
     success |-> FALSE, commit |-> FALSE, text |-> <<>>, turns_before |-> 0,
     at |-> None]

\* AIAgent.continue_conversation(conversation_id, user_message, stream=stream),
\* called through the wrapper: the breaker check, then the body once (the
\* body returns an APIResponse on every path, so the wrapper's first attempt
\* never raises)
continue_conversation(id, user_message, stream, course) ==
    LET before == get_circuit_breaker_state(circuit_breakers, conversation_breaker)
        check == Checked(circuit_breakers, conversation_breaker, now)
        during == get_circuit_breaker_state(check.cbs, conversation_breaker)
        found == id \in DOMAIN conversations
        body == Answered(stream, course)
        em == [error_history |-> error_history, degraded_features |-> degraded_features]
    IN  IF ~check.ok
        THEN /\ call' = Call("wrapper", conversation_breaker, before, "blocked", 0, FALSE)
             /\ returned' = Outcome(conversation_breaker, NoValue, 0, TRUE)
             /\ exchange' = [NoExchange EXCEPT !.id = id, !.found = found,
                                               !.blocked = TRUE, !.stream = stream,
                                               !.course = course, !.at = now]
             /\ UNCHANGED <<now, convVars, circuit_breakers, error_history,
                            degraded_features, last_trip, error_log>>
        ELSE /\ Appended(turn_log, DOMAIN turn_log) < MaxAppends
             /\ Len(error_log) < MaxErrors
             /\ circuit_breakers' = check.cbs
             /\ call' = [Call("wrapper", conversation_breaker, before, during, 0, TRUE)
                            EXCEPT !.invoked = <<now>>]
             /\ returned' = Outcome(conversation_breaker, NoValue, 0, FALSE)
             /\ IF ~found
                THEN /\ exchange' = [NoExchange EXCEPT !.id = id, !.stream = stream,
                                                       !.course = course, !.attempts = 1,
                                                       !.at = now]
                     /\ UNCHANGED <<convVars, error_history, degraded_features, error_log>>
                ELSE LET c == conversations[id]
                         turn == ConversationTurn(user_message)
                         final == body.path[Len(body.path)]
                     IN  /\ conversations' =
                               [conversations EXCEPT ![id] =
                                   IF body.commit
                                   THEN [c EXCEPT !.state = final,
                                                  !.turns = KeepNewest(Append(c.turns, turn),
                                                                       c.max_turns),
                                                  !.updated_at = now,
                                                  !.last_activity = now]
                                   ELSE [c EXCEPT !.state = final]]
                         /\ turn_log' = IF body.commit
                                        THEN [turn_log EXCEPT ![id] = Append(@, turn)]
                                        ELSE turn_log
                         /\ error_history' =
                               IF body.recorded THEN Recorded(em, now).error_history
                               ELSE error_history
                         /\ degraded_features' =
                               IF body.recorded THEN Recorded(em, now).degraded_features
                               ELSE degraded_features
                         /\ error_log' = IF body.recorded THEN Append(error_log, now)
                                         ELSE error_log
                         /\ exchange' =
                               [id |-> id, found |-> TRUE, blocked |-> FALSE,
                                stream |-> stream, course |-> course, from |-> c.state,
                                path |-> body.path, attempts |-> 1,
                                success |-> body.success, commit |-> body.commit,
                                text |-> body.text, turns_before |-> Len(turn_log[id]), at |-> now]
                         /\ UNCHANGED <<active_conversation, conv_order, swept>>
             /\ UNCHANGED <<now, last_trip>>

\* ErrorRecoveryManager.record_error(error, category, severity, context)
record_error ==
    LET em == Recorded([error_history |-> error_history,
                        degraded_features |-> degraded_features], now)
    IN  /\ Len(error_log) < MaxErrors
        /\ error_history' = em.error_history
        /\ degraded_features' = em.degraded_features
        /\ error_log' = Append(error_log, now)
        /\ call' = Call("record_error", NoValue, "closed", "closed",
                        Len(em.error_history), TRUE)
        /\ UNCHANGED <<now, circuit_breakers, last_trip>>

\* time passes while no error is recorded: a second, or the whole error window
\* ErrorRecoveryManager.get_error_stats: total_errors is len(error_history)
\* as the latest record_error left it (the call's `failures` holds the total)
get_error_stats ==
    /\ call' = Call("get_error_stats", NoValue, "closed", "closed",
                    Len(error_history), TRUE)
    /\ UNCHANGED <<now, circuit_breakers, error_history, degraded_features,
                   last_trip, error_log>>

ErrorTick(seconds) ==
    /\ IF seconds = error_window
       THEN now \div error_window < MaxCooldowns
       ELSE (now % error_window) + seconds <= MaxSeconds
    /\ now' = now + seconds
    /\ UNCHANGED errVars

\* time passes while nothing is called: a second, or a whole default timeout
BreakerTick(seconds) ==
    /\ IF seconds = default_timeout_seconds
       THEN now \div default_timeout_seconds < MaxCooldowns
       ELSE (now % default_timeout_seconds) + seconds <= MaxBackoff
    /\ now' = now + seconds
    /\ UNCHANGED errVars

----------------------------------------------------------------------------
\* the state after construction, psutil being installed or not
Constructed(installed) ==
    /\ now = 0
    /\ cache = <<>>
    /\ total_size = 0
    /\ related_keys = [k \in {} |-> {}]
    /\ linked = {}
    /\ use_order = <<>>
    /\ result = Result("init", NoValue, None, TRUE, NoValue, <<>>)
    /\ cache_lock = NoHolder
    /\ positions = [t \in Callers |-> Outside]
    /\ written = [by |-> NoHolder, holder |-> NoHolder]
    /\ mono = 0
    /\ timers = [k \in DebKeys |-> 0]
    /\ threads = [k \in DebKeys |-> <<>>]
    /\ callers = [c \in Callers |-> Idle]
    /\ lock = NoHolder
    /\ stopped = {}
    /\ conversations = [id \in {} |-> {}]
    /\ active_conversation = NoConversation
    /\ turn_log = [id \in {} |-> <<>>]
    /\ conv_order = <<>>
    /\ swept = NoSweep
    /\ circuit_breakers = [o \in {} |-> {}]
    /\ error_history = <<>>
    /\ degraded_features = {}
    /\ last_trip = [o \in {} |-> {}]
    /\ error_log = <<>>
    /\ call = Call("init", NoValue, "closed", "closed", 0, TRUE)
    /\ returned = NotCalled
    /\ exchange = NoExchange
    /\ psutil = installed
    /\ last_optimization = now
    /\ optimized = NotOptimized
    /\ passes = <<>>
    /\ access_counts = [k \in Keys |-> 0]
    /\ access_patterns = <<>>
    /\ access_log = [k \in Keys |-> <<>>]
    /\ hit_count = 0
    /\ miss_count = 0
    /\ get_calls = 0
    /\ candidates = NoCandidates

Init == Constructed(TRUE)

\* only `requests` is a required dependency: psutil may be missing
InitAnyModules == \E installed \in BOOLEAN : Constructed(installed)

\* the frame of each component's steps
OnlyCache == UNCHANGED <<rlockVars, debVars, lockVars, convVars, errVars, retVars, dlgVars, perfVars, statVars>>
OnlyCacheThreads == UNCHANGED <<debVars, lockVars, convVars, errVars, retVars, dlgVars, perfVars, statVars>>
OnlyDebouncer == UNCHANGED <<now, cacheVars, rlockVars, lockVars, convVars, errVars, retVars, dlgVars, perfVars, statVars>>
OnlyCallers == UNCHANGED <<now, cacheVars, rlockVars, convVars, errVars, retVars, dlgVars, perfVars, statVars>>
OnlyConversations == UNCHANGED <<cacheVars, rlockVars, debVars, lockVars, errVars, retVars, dlgVars, perfVars, statVars>>
OnlyDecorated == UNCHANGED <<cacheVars, rlockVars, debVars, lockVars, convVars, dlgVars, perfVars, statVars>>
OnlyDialogue == UNCHANGED <<cacheVars, rlockVars, debVars, lockVars, perfVars, statVars>>
OnlyPerformance == UNCHANGED <<rlockVars, lockVars, convVars, errVars, retVars, dlgVars, statVars>>
OnlyAnalytics == UNCHANGED <<rlockVars, debVars, lockVars, convVars, errVars, retVars, dlgVars, perfVars>>
OnlyCachedDialogue == UNCHANGED <<rlockVars, debVars, lockVars, perfVars, statVars>>
OnlyErrors == UNCHANGED <<cacheVars, rlockVars, debVars, lockVars, convVars, retVars, dlgVars, perfVars, statVars>>

(* The cache under eviction pressure: four keys, three slots, four bytes *)
CacheNext ==
    \/ OnlyCache /\ \E k \in Keys, v \in Values : put(k, v, None)
    \/ OnlyCache /\ \E k \in Keys : get(k)
    \/ OnlyCache /\ \E k \in Keys : invalidate_related(k)
    \/ OnlyCache /\ clear
    \/ OnlyCache /\ cleanup_expired
    \/ OnlyCache /\ optimize_cache
    \/ OnlyCache /\ CacheTick

SpecCache == Init /\ [][CacheNext]_vars

(* A cache of two keys, one of them read again and again within a few seconds *)
HistoryKeys == {"k1", "k2"}
HistoryNext ==
    \/ OnlyAnalytics /\ \E k \in HistoryKeys : put_counted(k, "a", None)
    \/ OnlyAnalytics /\ get_calls < MaxHits /\ get_counted("k1")
    \/ OnlyAnalytics /\ HistoryTick

SpecHistory == Init /\ [][HistoryNext]_vars

(* A cache whose keys are read a few times, cleared and asked for the keys
   worth loading again *)
PreloadKeys == {"k1", "k2"}
Limits == {1, 5}
PreloadNext ==
    \/ OnlyAnalytics /\ \E k \in PreloadKeys : /\ k \notin CachedKeys(cache)
                                               /\ put_counted(k, "a", None)
    \/ OnlyAnalytics /\ \E k \in PreloadKeys :
                            /\ Len(access_log[k]) < min_accesses
                            /\ k \in CachedKeys(cache)
                            /\ get_counted(k)
    \/ OnlyAnalytics /\ clear_counted
    \/ OnlyAnalytics /\ \E limit \in Limits : get_preload_candidates(limit)
    \/ OnlyAnalytics /\ \E seconds \in {1, 3600} : PreloadTick(seconds)

SpecPreload == Init /\ [][PreloadNext]_vars

(* A cache whose keys are stored and read while entries live and after they
   have expired *)
CountNext ==
    \/ OnlyAnalytics /\ \E k \in PreloadKeys : put_counted(k, "a", None)
    \/ OnlyAnalytics /\ \E k \in PreloadKeys : get_calls < MaxGets /\ get_counted(k)
    \/ OnlyAnalytics /\ \E seconds \in {1, default_ttl + 1} : PreloadTick(seconds)

SpecCounts == Init /\ [][CountNext]_vars

(* The cache with related keys and explicit ttl arguments: three keys, one value *)
RelKeys == {"k1", "k2", "k3"}
RelPairs == {<<"k1", "k2">>, <<"k2", "k3">>}
RelNext ==
    \/ OnlyCache /\ \E k \in RelKeys, t \in TtlArgs : put(k, "a", t)
    \/ OnlyCache /\ \E k \in RelKeys : get(k)
    \/ OnlyCache /\ \E p \in RelPairs : add_related_key(p[1], p[2])
    \/ OnlyCache /\ \E k \in RelKeys : invalidate_related(k)
    \/ OnlyCache /\ clear
    \/ OnlyCache /\ cleanup_expired
    \/ OnlyCache /\ optimize_cache
    \/ OnlyCache /\ CacheTick

SpecRelations == Init /\ [][RelNext]_vars

(* A cache with related keys whose entries are read, go stale and are
   optimized away *)
StaleKeys == {"k1", "k2"}
StaleNext ==
    \/ OnlyAnalytics /\ \E k \in StaleKeys : put_counted(k, "a", None)
    \/ OnlyAnalytics /\ get_calls < MaxGets /\ \E k \in StaleKeys : get_counted(k)
    \/ OnlyAnalytics /\ add_related_key("k1", "k2") /\ UNCHANGED statVars
    \/ OnlyAnalytics /\ optimize_cache_counted
    \/ OnlyAnalytics /\ CacheTick /\ UNCHANGED statVars

SpecStale == Init /\ [][StaleNext]_vars

(* The debouncer and its timer threads *)
DebNext ==
    \/ OnlyDebouncer /\ \E k \in DebKeys : debounce(k)
    \/ OnlyDebouncer /\ \E k \in DebKeys : cancel(k)
    \/ OnlyDebouncer /\ cancel_all
    \/ OnlyDebouncer /\ TimerStep
    \/ OnlyDebouncer /\ DebTick

SpecDebounce == Init /\ [][DebNext]_vars

\* the timer clock keeps running and every timer thread is scheduled
SpecDebounceFair ==
    SpecDebounce /\ WF_vars(OnlyDebouncer /\ DebTick)
                 /\ WF_vars(OnlyDebouncer /\ TimerStep)

(* The cache used by two threads at once *)
CacheThreadsNext ==
    \/ OnlyCacheThreads /\ \E t \in Callers : cache_acquire(t)
    \/ OnlyCacheThreads /\ \E t \in Callers : cache_body(t)
    \/ OnlyCacheThreads /\ \E t \in Callers : cache_release(t)
    \/ OnlyCacheThreads /\ \E t \in Callers : link_call(t, "k1", "k2")
    \/ OnlyCacheThreads /\ \E t \in Callers : link_step(t)
    \/ OnlyCacheThreads /\ ThreadsTick

SpecCacheThreads == Init /\ [][CacheThreadsNext]_vars

(* One key debounced by two threads at once *)
SharedKeys == {"ka"}

ThreadsNext ==
    \/ OnlyCallers /\ \E c \in Callers : \E k \in SharedKeys : debounce_call(c, k)
    \/ OnlyCallers /\ \E c \in Callers : debounce_acquire(c)
    \/ OnlyCallers /\ \E c \in Callers : debounce_cancel(c)
    \/ OnlyCallers /\ \E c \in Callers : debounce_install(c)
    \/ OnlyCallers /\ \E c \in Callers : debounce_start(c)
    \/ OnlyCallers /\ \E c \in Callers : debounce_release(c)
    \/ OnlyDebouncer /\ TimerStep
    \/ OnlyDebouncer /\ DebTick

SpecDebounceThreads == Init /\ [][ThreadsNext]_vars

(* The conversations of the agent *)
ConvIds == {<<a, t>> : a \in AgentTypes, t \in 0..MaxSeconds}
ConvNext ==
    \/ OnlyConversations /\ \E a \in AgentTypes : start_conversation(a)
    \/ OnlyConversations /\ \E id \in ConvIds, m \in Messages : add_turn(id, m)
    \/ OnlyConversations /\ \E id \in ConvIds : trim_to_size(id, None)
    \/ OnlyConversations /\ \E id \in ConvIds : end_conversation(id)
    \/ OnlyConversations /\ clear_conversations
    \/ OnlyConversations /\ ConvTick

SpecConversations == Init /\ [][ConvNext]_vars

(* The conversations of an agent, started and given turns in the first
   seconds, and swept by _cleanup_conversations then and a day later *)
SweepAgentTypes == {"code_assistant"}
SweepNext ==
    \/ OnlyConversations /\ now < max_conversation_age
                         /\ \E a \in SweepAgentTypes : start_conversation(a)
    \/ OnlyConversations /\ now < max_conversation_age
                         /\ \E id \in DOMAIN conversations : add_turn(id, "m1")
    \/ OnlyConversations /\ _cleanup_conversations
    \/ OnlyConversations /\ \E d \in {1, max_conversation_age} : SweepTick(d)

SpecSweep == Init /\ [][SweepNext]_vars

(* The same agent when a response can come back without content *)
UnmeasuredNext ==
    \/ OnlyConversations /\ now < max_conversation_age
                         /\ \E a \in SweepAgentTypes : start_conversation(a)
    \/ OnlyConversations /\ now < max_conversation_age
                         /\ \E id \in DOMAIN conversations : add_turn(id, "m1")
    \/ OnlyConversations /\ now < max_conversation_age
                         /\ \E id \in DOMAIN conversations :
                                add_turn_without_response(id, "m1")
    \/ OnlyConversations /\ _cleanup_conversations
    \/ OnlyConversations /\ \E d \in {1, max_conversation_age} : SweepTick(d)

SpecUnmeasured == Init /\ [][UnmeasuredNext]_vars

(* The circuit breakers and the retry wrapper *)
BreakerNext ==
    \/ OnlyErrors /\ \E o \in Ops, t \in TimeoutArgs : trip_circuit_breaker(o, t)
    \/ OnlyErrors /\ \E o \in Ops : check_circuit_breaker(o)
    \/ OnlyErrors /\ \E o \in Ops : reset_circuit_breaker(o)
    \/ OnlyErrors /\ \E o \in Ops, f \in 0..(retry_count + 1) : wrapper(o, f)
    \/ OnlyErrors /\ \E d \in {1, default_timeout_seconds} : BreakerTick(d)

SpecBreaker == Init /\ [][BreakerNext]_vars

(* A decorated function, with and without a fallback *)
DecoratedNext ==
    \/ OnlyDecorated /\ \E o \in Ops, fb \in Fallbacks, f \in 0..(retry_count + 1) :
                            decorated(o, fb, f)
    \/ OnlyErrors /\ \E o \in Ops : trip_circuit_breaker(o, default_timeout_seconds)
    \/ OnlyErrors /\ BreakerTick(default_timeout_seconds)

SpecDecorated == Init /\ [][DecoratedNext]_vars

\* AIAgent.continue_conversation(id, user_message, stream=False) with the
\* response cache: a live cached response is used and the network layer is
\* not asked; otherwise _handle_single_response asks it and caches a
\* successful response under the same key
continue_conversation_cached(id, user_message, network) ==
    LET blocked == ~Checked(circuit_breakers, conversation_breaker, now).ok
        found == id \in DOMAIN conversations
        key == smart_cache_key(conversations[id].agent_type, user_message)
    IN  IF blocked \/ ~found
        THEN /\ continue_conversation(id, user_message, FALSE, <<network>>)
             /\ UNCHANGED <<cache, total_size, related_keys, linked, use_order, result>>
        ELSE IF CacheHit(key)
        THEN /\ continue_conversation(id, user_message, FALSE, <<"cached">>)
             /\ get(key)
        ELSE /\ continue_conversation(id, user_message, FALSE, <<network>>)
             /\ IF network = "ok" THEN put(key, Content, None) ELSE get(key)

\* time passes while the agent is idle: a second, or in the end more than
\* the time a cached response lives
CachedTick(seconds) ==
    /\ IF seconds = 1 THEN now < MaxSeconds ELSE now <= MaxSeconds
    /\ now' = now + seconds
    /\ UNCHANGED <<cacheVars, convVars, errVars, retVars, dlgVars>>

(* Conversations continued through the wrapper, ended and swept *)
DialogueNext ==
    \/ OnlyConversations /\ \E a \in AgentTypes : start_conversation(a)
    \/ OnlyDialogue /\ \E id \in ConvIds, m \in {"m1"}, c \in SingleCourses :
                           continue_conversation(id, m, FALSE, c)
    \/ OnlyDialogue /\ \E id \in ConvIds, m \in {"m1"}, c \in StreamCourses :
                           continue_conversation(id, m, TRUE, c)
    \/ OnlyConversations /\ \E id \in ConvIds : end_conversation(id)
    \/ OnlyErrors /\ trip_circuit_breaker(conversation_breaker, default_timeout_seconds)
    \/ OnlyErrors /\ reset_circuit_breaker(conversation_breaker)

SpecDialogue == Init /\ [][DialogueNext]_vars

\* AIAgent.emergency_cleanup: every conversation is dropped and the error
\* manager degrades its features; active_conversation is not assigned
emergency_cleanup ==
    /\ conversations' = [id \in {} |-> {}]
    /\ turn_log' = [id \in {} |-> <<>>]
    /\ conv_order' = <<>>
    /\ degraded_features' =
           degraded_features \cup {"streaming", "auto_context_analysis", "advanced_caching"}
    /\ UNCHANGED <<now, active_conversation, swept, circuit_breakers, error_history,
                   last_trip, error_log, call>>

(* The conversations of an agent that are started, ended, swept and cleared,
   in the first seconds and a day later *)
ActiveNext ==
    \/ OnlyDialogue /\ now < max_conversation_age
                    /\ \E a \in SweepAgentTypes : start_conversation(a)
                    /\ UNCHANGED <<errVars, retVars, dlgVars>>
    \/ OnlyDialogue /\ now < max_conversation_age
                    /\ \E id \in DOMAIN conversations : add_turn(id, "m1")
                    /\ UNCHANGED <<errVars, retVars, dlgVars>>
    \/ OnlyDialogue /\ \E id \in DOMAIN conversations : end_conversation(id)
                    /\ UNCHANGED <<errVars, retVars, dlgVars>>
    \/ OnlyDialogue /\ _cleanup_conversations /\ UNCHANGED <<errVars, retVars, dlgVars>>
    \/ OnlyDialogue /\ clear_conversations /\ UNCHANGED <<errVars, retVars, dlgVars>>
    \/ OnlyDialogue /\ emergency_cleanup /\ UNCHANGED <<retVars, dlgVars>>
    \/ OnlyDialogue /\ \E d \in {1, max_conversation_age} : SweepTick(d)
                    /\ UNCHANGED <<errVars, retVars, dlgVars>>

SpecActive == Init /\ [][ActiveNext]_vars

(* Conversations continued without streaming, answered from the response
   cache or by the network layer *)
CachedNext ==
    \/ OnlyCachedDialogue /\ now = 0
                          /\ \E a \in AgentTypes : start_conversation(a)
                          /\ UNCHANGED <<cacheVars, errVars, retVars, dlgVars>>
    \/ OnlyCachedDialogue /\ \E id \in DOMAIN conversations, m \in {"m1", "M1"},
                                 n \in Networks :
                                 continue_conversation_cached(id, m, n)
    \/ OnlyCachedDialogue /\ \E seconds \in {1, default_ttl + 1} : CachedTick(seconds)

SpecCached == Init /\ [][CachedNext]_vars

(* Two operations, each guarded by a breaker of its own name *)
Guards == {"conversation_api", "completion_api"}

GuardsNext ==
    \/ OnlyErrors /\ \E o \in Guards : trip_circuit_breaker(o, default_timeout_seconds)
    \/ OnlyErrors /\ \E o \in Guards : check_circuit_breaker(o)
    \/ OnlyErrors /\ \E o \in Guards : reset_circuit_breaker(o)
    \/ OnlyErrors /\ \E o \in Guards, f \in {0, retry_count + 1} : wrapper(o, f)
    \/ OnlyErrors /\ BreakerTick(default_timeout_seconds)

SpecGuards == Init /\ [][GuardsNext]_vars

(* The performance manager: a cache of two keys, optimized on request *)
PerformanceNext ==
    \/ OnlyCache /\ \E k \in LockedKeys : put(k, "a", None)
    \/ OnlyPerformance /\ UNCHANGED debVars /\ auto_optimize
    \/ OnlyPerformance /\ performance_cleanup
    \/ OnlyPerformance /\ UNCHANGED debVars
                       /\ \E d \in {1, optimization_interval - 1, stale_threshold + 1} :
                              PerformanceTick(d)

SpecPerformance == InitAnyModules /\ [][PerformanceNext]_vars

(* The error budget of an hour *)
ErrorNext ==
    \/ OnlyErrors /\ record_error
    \/ OnlyErrors /\ \E d \in {1, error_window} : ErrorTick(d)

SpecErrors == Init /\ [][ErrorNext]_vars

(* The error manager asked for its statistics between errors *)
StatsNext ==
    \/ OnlyErrors /\ record_error
    \/ OnlyErrors /\ get_error_stats
    \/ OnlyErrors /\ \E d \in {1, error_window} : ErrorTick(d)

SpecStats == Init /\ [][StatsNext]_vars

----------------------------------------------------------------------------
(* Claims about the cache *)

\* C1: in every reachable state the sizes of the live entries add up to at
\* most max_memory_bytes.
C1_ByteBudget == SumSizes(cache) <= max_memory_bytes

\* a put has just filled the byte budget with fewer entries than slots
C1_Witness ==
    /\ result.op = "put" /\ result.ok
    /\ SumSizes(cache) = max_memory_bytes
    /\ Len(cache) < max_size

\* C2: a put of an absent key into a cache that holds max_size entries, when
\* the new entry fits the byte budget once the least recently used entry is
\* gone, evicts exactly that entry: the key whose latest use (a put or a get
\* hit) lies furthest back.
C2_EvictsLeastRecentlyUsed ==
    [][( /\ result'.op = "put" /\ result'.ok
         /\ Len(cache) = max_size
         /\ result'.key \notin CachedKeys(cache)
         /\ total_size - Head(cache).size_bytes + cache'[Len(cache')].size_bytes
                <= max_memory_bytes )
       => /\ CachedKeys(cache') = (CachedKeys(cache) \ {Head(use_order)}) \cup {result'.key}
          /\ Len(cache') = max_size
          /\ cache'[Len(cache')].key = result'.key]_vars

\* put k1, k2, k3, get(k1), put k4: k2 is gone, k3, k1, k4 remain in use order
C2_Witness ==
    /\ result.op = "put" /\ result.key = "k4" /\ result.ok
    /\ use_order = <<"k3", "k1", "k4">>
    /\ CachedKeys(cache) = {"k1", "k3", "k4"}

\* C3: a get(key) that follows put(key, value, ttl) by more than ttl seconds,
\* with no call in between, returns absent.
C3_TtlOfPutExpires ==
    [][\A k \in Keys :
          ( /\ result.op = "put" /\ result.key = k /\ result.ok
            /\ k \in CachedKeys(cache)
            /\ now - EntryOf(cache, k).timestamp > result.ttl
            /\ get(k) )
          => result'.value = NoValue]_vars

\* C4 (as stated): once add_related_key(a, b) was called, invalidate_related(a)
\* with both cached removes both.
C4_AsStated ==
    [][\A a, b \in Keys :
          ( /\ <<a, b>> \in linked
            /\ {a, b} \subseteq CachedKeys(cache)
            /\ invalidate_related(a) )
          => {a, b} \cap CachedKeys(cache') = {}]_vars

\* C4: invalidate_related(a) removes a and every key that the relation graph
\* holds for a (every b linked to a by add_related_key whose link no
\* optimize_cache has pruned since); a get of any of them then returns absent,
\* and the returned list holds exactly the keys removed, each once.
C4_InvalidateRelated ==
    [][\A a \in Keys :
          invalidate_related(a) =>
          LET group == {a} \cup (IF a \in DOMAIN related_keys THEN related_keys[a] ELSE {})
          IN  /\ group \cap CachedKeys(cache') = {}
              /\ \A k \in group : get_value(k)' = NoValue
              /\ SeqToSet(result'.keys) = CachedKeys(cache) \ CachedKeys(cache')
              /\ SeqToSet(result'.keys) = CachedKeys(cache) \cap group
              /\ Cardinality(SeqToSet(result'.keys)) = Len(result'.keys)]_vars

\* invalidate_related(k1) has just removed k1 and its related key k2
C4_Witness ==
    /\ result.op = "invalidate_related" /\ result.key = "k1"
    /\ result.keys = <<"k1", "k2">>
    /\ "k2" \in related_keys["k1"]
    /\ {"k1", "k2"} \cap CachedKeys(cache) = {}
----------------------------------------------------------------------------
(* Claims about puts and the byte counter *)

\* the values whose entry alone exceeds max_memory_bytes
Oversized == {v \in Values : _calculate_size(v) > max_memory_bytes}

\* C15: a put of a value whose entry alone exceeds max_memory_bytes returns
\* false and leaves the keys, the values, the recency order and the byte
\* total as they were, an entry stored under the same key included.
C15_OversizedPutRejected ==
    [][\A k \in Keys, v \in Oversized :
          put(k, v, None) =>
              /\ ~result'.ok
              /\ cache' = cache
              /\ total_size' = total_size
              /\ use_order' = use_order]_vars

\* a full cache after an oversized put for the key of its oldest entry
C15_Witness ==
    /\ result.op = "put"
    /\ ~result.ok
    /\ Len(cache) = max_size
    /\ cache[1].key = result.key
    /\ total_size = max_memory_bytes


\* C16: in every reachable state the byte counter of the cache equals the sum
\* of size_bytes of the entries in the cache.
C16_CounterMatchesEntries == total_size = SumSizes(cache)

\* a put into a cache full in bytes evicted the oldest entry, some time after
\* the first put
C16_Witness ==
    /\ result.op = "put"
    /\ result.ok
    /\ now > 0
    /\ Len(cache) = 2
    /\ cache[1].size_bytes = 2
    /\ cache[2].size_bytes = 2
    /\ cache[2].timestamp > cache[1].timestamp
    /\ total_size = 4


\* C17: after invalidate_related(key) the key is in the related set of no
\* other key.
C17_ReverseLinksRemoved ==
    result.op = "invalidate_related"
        => \A other \in DOMAIN related_keys \ {result.key} :
               result.key \notin related_keys[other]

----------------------------------------------------------------------------
(* Claims about the debouncer *)

TimerIds == {<<k, i>> : k \in DebKeys, i \in 1..MaxTimers}
Created(id) == id[2] <= Len(threads[id[1]])
TimerOf(id) == threads[id[1]][id[2]]
\* a later debounce call for the same key took the timer's place
Replaced(id) == id[2] < Len(threads[id[1]])

\* a timer that is neither replaced nor cancelled runs in the end
EventuallyFires(id) ==
    (Created(id) /\ TimerOf(id).runs = 0)
        ~> (Created(id) /\ (TimerOf(id).runs = 1 \/ Replaced(id) \/ TimerOf(id).cancelled))

\* C5: of the debounce calls for one key that each come before the delay
\* since the previous one has elapsed, only the last one's func is invoked,
\* once, and not before the delay has elapsed since that call.
C5_BurstSafe ==
    \A id \in TimerIds : Created(id) =>
        /\ TimerOf(id).runs <= 1
        /\ TimerOf(id).runs = 1 => mono >= TimerOf(id).started + delay
        /\ ( /\ Replaced(id)
             /\ threads[id[1]][id[2] + 1].started - TimerOf(id).started < delay )
           => TimerOf(id).runs = 0

C5_BurstFiresOnce == []C5_BurstSafe /\ \A id \in TimerIds : EventuallyFires(id)

\* three calls for ka, each a second after the one before; only the third ran
C5_Witness ==
    /\ Len(threads["ka"]) = 3
    /\ \A i \in 1..2 : threads["ka"][i + 1].started - threads["ka"][i].started = 1
    /\ threads["ka"][1].runs = 0 /\ threads["ka"][2].runs = 0
    /\ threads["ka"][3].runs = 1
    /\ ~threads["ka"][1].cancelled /\ timers["ka"] = 3

\* C6: a call that the next call for its key follows only after the delay
\* has elapsed has had its func invoked by then, unless cancel took it; and
\* every pending invocation that is neither replaced nor cancelled is made
\* in the end, once.
C6_SpacedSafe ==
    \A id \in TimerIds : Created(id) =>
        /\ TimerOf(id).runs <= 1
        /\ ( /\ Replaced(id)
             /\ threads[id[1]][id[2] + 1].started - TimerOf(id).started > delay
             /\ ~TimerOf(id).cancelled )
           => TimerOf(id).runs = 1

----------------------------------------------------------------------------
(* Claims about conversations *)

\* the last n elements of a sequence (all of it when it has fewer)
LastOf(q, n) == IF Len(q) <= n THEN q ELSE [i \in 1..n |-> q[Len(q) - n + i]]

\* C7: after any number of add_turn calls a conversation holds at most
\* max_turns turns, and they are the max_turns most recently added ones, in
\* the order they were added.
C7_TurnsAreTheMostRecent ==
    \A id \in DOMAIN conversations :
        /\ Len(conversations[id].turns) <= conversations[id].max_turns
        /\ conversations[id].turns = LastOf(turn_log[id], conversations[id].max_turns)

\* four turns were added to one conversation, the first and the last two
\* differ, and the last two are the ones it holds
C7_Witness ==
    \E id \in DOMAIN conversations :
        /\ Len(turn_log[id]) = max_turns + 2
        /\ turn_log[id][1].user_message = "m1"
        /\ turn_log[id][2].user_message = "m1"
        /\ turn_log[id][3].user_message = "m2"
        /\ turn_log[id][4].user_message = "m1"
        /\ conversations[id].turns = <<turn_log[id][3], turn_log[id][4]>>

\* the ids of the conversations that a step removed
Removed == DOMAIN conversations \ DOMAIN conversations'
\* the conversations are three, no two last active at the same time
ThreeOfIncreasingActivity ==
    /\ Cardinality(DOMAIN conversations) = 3
    /\ \A a, b \in DOMAIN conversations :
           a # b => conversations[a].last_activity # conversations[b].last_activity

\* C13: after _cleanup_conversations at most max_conversations conversations
\* remain, and each conversation the count rule removed was last active no
\* later than each conversation kept; of three conversations last active at
\* different times, none of them too old or too large, exactly the one least
\* recently active is removed.
C13_SweepKeepsMostRecent ==
    [][_cleanup_conversations =>
          /\ Cardinality(DOMAIN conversations') <= max_conversations
          /\ SeqToSet(swept'.excess) \subseteq Removed
          /\ \A r \in SeqToSet(swept'.excess), k \in DOMAIN conversations' :
                 conversations[r].last_activity <= conversations[k].last_activity
          /\ (ThreeOfIncreasingActivity /\ swept'.aged = <<>> /\ swept'.large = <<>>)
                 => \E r \in DOMAIN conversations :
                        /\ Removed = {r}
                        /\ \A k \in DOMAIN conversations :
                               conversations[r].last_activity
                                   <= conversations[k].last_activity]_vars

\* of three conversations the count rule removed the second one started,
\* the first one having been given a turn after the second one was started
C13_Witness ==
    /\ swept.excess = << <<"code_assistant", 1>> >>
    /\ swept.aged = <<>>
    /\ swept.large = <<>>
    /\ DOMAIN conversations = {<<"code_assistant", 0>>, <<"code_assistant", 2>>}
    /\ conversations[<<"code_assistant", 0>>].last_activity = 2
    /\ Len(conversations[<<"code_assistant", 0>>].turns) = 1

----------------------------------------------------------------------------
(* Claims about the circuit breakers *)

\* the latest call checked the breaker of o (directly, or as the wrapper's
\* first step) with no reset since the latest trip, less than that trip's
\* timeout after it
CheckedWithinTimeout(o) ==
    /\ call.name \in {"check", "wrapper"}
    /\ call.operation = o
    /\ call.before # "closed"
    /\ call.at - call.tripped.at < call.tripped.timeout_seconds

\* the check refused and left the breaker open, as that trip left it
Refused(o) ==
    /\ ~call.ok
    /\ call.name = "wrapper" => call.during = "blocked"
    /\ get_circuit_breaker_state(circuit_breakers, o) = "open"
    /\ last_trip[o] = call.tripped

\* C8: after trip_circuit_breaker(op, timeout), every check of op made before
\* timeout seconds have passed since the trip returns false and leaves the
\* breaker open, provided no reset intervenes.
C8_BlockedWithinTimeout ==
    \A o \in Ops : CheckedWithinTimeout(o) => Refused(o)

\* a check one second before the end of the timeout of an explicit trip
C8_Witness ==
    \E o \in Ops :
        /\ CheckedWithinTimeout(o)
        /\ call.name = "check"
        /\ call.tripped.by = "trip"
        /\ call.at = call.tripped.at + call.tripped.timeout_seconds - 1
        /\ ~call.ok

\* C9: a check made while the breaker is half-open does not allow the
\* operation again.
C9_HalfOpenAllowsOnce ==
    (call.name = "check" /\ call.before = "half-open") => ~call.ok

\* the latest trip before the latest call was made by the wrapper, after a
\* run of the operation that began with the breaker half-open and failed in
\* every attempt
TrippedWhileHalfOpen(o) ==
    /\ call.operation = o
    /\ call.tripped.by = "wrapper"
    /\ call.tripped.during = "half-open"

\* C10: when the wrapped operation fails while the breaker is half-open, the
\* breaker is open again with a tripped_at no older than that run, and the
\* checks that follow are refused until the timeout has passed anew.
C10_FailureReopens ==
    \A o \in Ops :
        /\ (/\ call.name = "wrapper"
            /\ call.operation = o
            /\ call.during = "half-open"
            /\ call.failures = retry_count + 1)
           => /\ circuit_breakers[o].state = "open"
              /\ circuit_breakers[o].tripped_at >= call.at
        /\ (TrippedWhileHalfOpen(o) /\ CheckedWithinTimeout(o)) => Refused(o)

\* a check a whole old timeout after the run that failed while half-open
C10_Witness ==
    \E o \in Ops :
        /\ TrippedWhileHalfOpen(o)
        /\ call.name = "check"
        /\ call.operation = o
        /\ call.at > call.tripped.at
        /\ ~call.ok
        /\ circuit_breakers[o].state = "open"

\* C11: a run of the wrapped operation that began with the breaker half-open
\* and succeeded, in whichever attempt, leaves the breaker closed.
C11_SuccessCloses ==
    \A o \in Ops :
        (/\ call.name = "wrapper"
         /\ call.operation = o
         /\ call.during = "half-open"
         /\ call.ok)
        => get_circuit_breaker_state(circuit_breakers, o) = "closed"

\* the latest call was a run of the wrapper for o that the breaker allowed
\* and whose every attempt raised
EveryAttemptRaised(o) ==
    /\ call.name = "wrapper"
    /\ call.operation = o
    /\ call.during # "blocked"
    /\ ~call.ok

----------------------------------------------------------------------------
(* Claims about the error budget *)

\* the number of the first n recorded errors that were less than an hour old
\* when the n-th was recorded
InWindow(n) ==
    Cardinality({i \in 1..n : error_log[n] - error_log[i] < error_window})

\* C14: the features are degraded exactly when some record_error found more
\* than max_errors_per_hour errors recorded within the hour before it: not
\* after max_errors_per_hour errors or fewer, and after one more within the
\* hour.
C14_DegradedWhenOverBudget ==
    (degraded_features # {})
        <=> \E n \in 1..Len(error_log) : InWindow(n) > max_errors_per_hour

\* one error more than the budget within a second, after an hour without
\* degradation
C14_Witness ==
    /\ Len(error_log) = max_errors_per_hour + 1
    /\ error_log[1] >= error_window
    /\ error_log[max_errors_per_hour + 1] - error_log[1] <= 1
    /\ degraded_features # {}

\* the timers of a key that are neither cancelled nor fired
Pending(key) == {i \in 1..Len(threads[key]) : ~threads[key][i].finished}

\* C18: however the statements of concurrent debounce calls for one key
\* interleave, the key never has two timers that are neither cancelled nor
\* fired, and a timer that a later call replaced before its delay elapsed
\* never runs its func.
C18_OnePendingTimerPerKey ==
    /\ \A k \in DebKeys : Cardinality(Pending(k)) <= 1
    /\ \A id \in stopped : threads[id[1]][id[2]].runs = 0

\* t2 replaced the waiting timer of t1 and is creating its own while t1, in
\* a second call, waits for the lock
C18_Witness ==
    /\ lock = "t2"
    /\ callers["t2"].pc = "create"
    /\ callers["t1"].pc = "lock"
    /\ stopped = {<<"ka", 1>>}
    /\ threads["ka"][1].pc = "done"

\* C19: every write to the cache's map, byte counter, access history and
\* relation graph is made by a thread that holds the cache's lock at that
\* moment.
C19_WritesHoldTheLock == written.by = written.holder

\* the breaker of o is open and its timeout has not elapsed
OpenWithinTimeout(o) ==
    /\ o \in DOMAIN circuit_breakers
    /\ circuit_breakers[o].state = "open"
    /\ now - circuit_breakers[o].tripped_at <= circuit_breakers[o].timeout_seconds

\* C20: a call of the wrapped function made while its breaker is open and
\* the timeout has not elapsed returns the fallback at once: the operation
\* is not invoked, no error is recorded and the breaker is left as it was.
C20_BlockedCallChangesNothing ==
    [][\A o \in Ops :
          ( /\ call'.name = "wrapper"
            /\ call' # call
            /\ call'.operation = o
            /\ OpenWithinTimeout(o) )
          => /\ call'.during = "blocked"
             /\ ~call'.ok
             /\ call'.invoked = <<>>
             /\ UNCHANGED <<now, circuit_breakers, error_history, error_log,
                            degraded_features, last_trip>>]_vars

\* the wrapper's own trip, after errors were recorded, blocks a call made
\* exactly when the default timeout ends
C20_Witness ==
    /\ call.name = "wrapper"
    /\ call.during = "blocked"
    /\ call.before = "open"
    /\ call.invoked = <<>>
    /\ call.tripped.by = "wrapper"
    /\ call.at - call.tripped.at = default_timeout_seconds
    /\ Len(error_log) = retry_count + 1

\* the latest call of a decorated function was let through by its breaker
\* and every one of its retry_count + 1 attempts raised
Exhausted ==
    /\ returned.how # "none"
    /\ ~returned.blocked
    /\ returned.failures = retry_count + 1

\* C21: when all retry_count + 1 attempts fail, the caller gets the fallback
\* value if one was given (any value but None), and otherwise the exception
\* of the last attempt is raised.
C21_FallbackOrLastException ==
    Exhausted =>
        IF returned.fallback # NoValue
        THEN /\ returned.how = "return"
             /\ returned.what = "fallback"
             /\ returned.value = returned.fallback
        ELSE /\ returned.how = "raise"
             /\ returned.what = "exception"
             /\ returned.attempt = retry_count + 1

\* three attempts were made and failed, no fallback: the third exception is raised
C21_Witness ==
    /\ Exhausted
    /\ call.name = "wrapper"
    /\ Len(call.invoked) = retry_count + 1
    /\ returned.fallback = NoValue
    /\ returned.how = "raise"
    /\ returned.attempt = retry_count + 1

\* the latest call of the decorated function was let through, raised in
\* one or more attempts and then succeeded
RecoveredOnRetry ==
    /\ call.name = "wrapper"
    /\ call.during # "blocked"
    /\ call.failures >= 1
    /\ call.ok

\* C22: when an attempt succeeds after one or more failed attempts of the
\* same call, the caller gets that attempt's result, no attempt follows it,
\* the breaker is closed afterwards and the call did not trip it.
C22_SuccessOnRetryResets ==
    RecoveredOnRetry =>
        /\ returned.how = "return"
        /\ returned.what = "result"
        /\ returned.attempt = call.failures + 1
        /\ Len(call.invoked) = call.failures + 1
        /\ get_circuit_breaker_state(circuit_breakers, call.operation) = "closed"
        /\ call.operation \in DOMAIN last_trip => last_trip[call.operation] = call.tripped

\* the breaker was half-open when the call began; the second attempt failed
\* too and the third succeeded
C22_Witness ==
    /\ RecoveredOnRetry
    /\ call.during = "half-open"
    /\ call.failures = retry_count
    /\ returned.attempt = retry_count + 1
    /\ circuit_breakers[call.operation].state = "closed"

\* the latest call is a continue_conversation that the breaker let through
\* and whose request to the API failed (timeout, connection error or bad
\* status, reported by chat_completion)
NetworkCallFailed ==
    /\ call.name = "wrapper"
    /\ exchange.found
    /\ ~exchange.blocked
    /\ exchange.course = <<"failed">>

\* C23: a failure of the network call inside continue_conversation is
\* retried: the operation is attempted retry_count + 1 times before the
\* failure reaches the caller, and the conversation_api breaker is then open.
C23_NetworkFailureRetried ==
    NetworkCallFailed =>
        /\ Len(call.invoked) = retry_count + 1
        /\ get_circuit_breaker_state(circuit_breakers, conversation_breaker) = "open"

\* C24: a trip, a check, a reset or a wrapped call for one operation name
\* leaves the breaker of every other name as it was, and a wrapped call is
\* blocked only by a trip of the breaker of its own name.
C24_OtherBreakersUntouched ==
    /\ [](\A o \in Guards :
            (call.name = "wrapper" /\ call.operation = o /\ call.during = "blocked")
            => (call.tripped.by # "none" /\ call.before = "open"))
    /\ [][\A o \in Guards :
            o # call'.operation
            => breaker_of(circuit_breakers', o) = breaker_of(circuit_breakers, o)]_vars

\* every attempt of conversation_api failed while the breaker of
\* completion_api was half-open: the one is open, the other still half-open
C24_Witness ==
    /\ call.name = "wrapper"
    /\ call.operation = "conversation_api"
    /\ call.failures = retry_count + 1
    /\ breaker_of(circuit_breakers, "conversation_api").state = "open"
    /\ breaker_of(circuit_breakers, "completion_api").state = "half-open"

\* C25: every start_conversation adds one conversation to the store, in
\* state idle and active, and leaves the conversations already stored as
\* they were.
C25_StartAddsOneConversation ==
    [][(\E a \in AgentTypes : start_conversation(a))
       => /\ Cardinality(DOMAIN conversations') = Cardinality(DOMAIN conversations) + 1
          /\ \A id \in DOMAIN conversations : conversations'[id] = conversations[id]
          /\ active_conversation' \in DOMAIN conversations' \ DOMAIN conversations
          /\ conversations'[active_conversation'].state = "idle"]_vars

\* C26: a conversation that is completed stays completed, whatever is
\* called next (a start that reuses its id apart).
C26_CompletedIsTerminal ==
    [][~(\E a \in AgentTypes : start_conversation(a))
       => \A id \in DOMAIN conversations \cap DOMAIN conversations' :
              conversations[id].state = "completed"
              => conversations'[id].state = "completed"]_vars

\* the changes of state the state machine of a conversation has
Transitions ==
    {<<"idle", "thinking">>, <<"thinking", "responding">>,
     <<"responding", "waiting_for_input">>, <<"waiting_for_input", "thinking">>,
     <<"thinking", "error">>, <<"responding", "error">>}

\* the states the latest continue_conversation went through, the state it
\* found first
StatesVisited == <<exchange.from>> \o exchange.path

\* C27: every change of state that continue_conversation makes is one of
\* idle->thinking, thinking->responding, responding->waiting_for_input,
\* waiting_for_input->thinking, thinking->error, responding->error.
C27_FollowsStateMachine ==
    (exchange.found /\ ~exchange.blocked) =>
        \A i \in 1..(Len(StatesVisited) - 1) :
            <<StatesVisited[i], StatesVisited[i + 1]>> \in Transitions

\* a stream in which a chunk reports failure or the generator raises
Broken(course) == \E i \in 1..Len(course) : course[i] \in {"fail", "raise"}

\* C28: a streamed continue_conversation whose stream fails part-way adds
\* no turn to the conversation, keeps none of the text received so far and
\* leaves the conversation in state error.
C28_FailedStreamCommitsNothing ==
    [][( /\ exchange' # exchange
         /\ exchange'.found
         /\ ~exchange'.blocked
         /\ exchange'.stream
         /\ Broken(exchange'.course) )
       => /\ conversations'[exchange'.id].turns = conversations[exchange'.id].turns
          /\ turn_log' = turn_log
          /\ ~exchange'.commit
          /\ conversations'[exchange'.id].state = "error"]_vars

\* a conversation with one turn; the next stream fails after a chunk of
\* text: still that one turn, and state error
C28_Witness ==
    /\ exchange.found
    /\ exchange.stream
    /\ exchange.course = <<"c", "fail">>
    /\ exchange.turns_before = 1
    /\ exchange.id \in DOMAIN conversations
    /\ Len(conversations[exchange.id].turns) = 1
    /\ Len(turn_log[exchange.id]) = 1
    /\ conversations[exchange.id].state = "error"

\* C29: auto_optimize runs its optimization at most once per interval: every
\* pass comes at least optimization_interval seconds after the pass before
\* it (the first after construction), and a call made sooner does nothing.
C29_PassesAnIntervalApart ==
    /\ \A i \in 1..Len(passes) :
           passes[i] - (IF i = 1 THEN 0 ELSE passes[i - 1]) >= optimization_interval
    /\ (optimized.at # None /\ optimized.at - optimized.last < optimization_interval)
           => ~optimized.ran

\* C30: _cleanup_conversations never raises because of one conversation: a
\* conversation whose memory estimate fails is skipped, and after the sweep
\* the count limit and the turn limit hold for the conversations kept
C30_SweepSkipsTheUnprocessable ==
    [][_cleanup_conversations =>
          /\ ~swept'.raised
          /\ Cardinality(DOMAIN conversations') <= max_conversations
          /\ \A id \in DOMAIN conversations' :
                 Len(conversations'[id].turns) <= conversations'[id].max_turns]_vars

\* the conversations left by the age rule of the sweep being taken, and the
\* estimated size of some of them before the sweep
AfterAgeRule == Without(conv_order, swept'.aged)
SizeBefore(ids) ==
    SumOver(ids, [id \in SeqToSet(ids) |-> estimated_bytes(conversations[id])])

RecordedWithinTheHour(t) ==
    Len(SelectSeq(error_log, LAMBDA at : at > t - error_window))

\* C32: the total_errors of get_error_stats is the number of errors recorded
\* within the hour before the call; older errors are not counted
C32_StatsCountTheLastHour ==
    call.name = "get_error_stats" => call.failures = RecordedWithinTheHour(call.at)

\* C33: the cache never holds more than max_size entries; a put into a cache
\* that holds max_size entries takes an entry out before it inserts, and a
\* put that replaces a cached key at full capacity evicts no other key when
\* the byte budget allows the new value (a step that changes the cache and
\* leaves a put as the latest call is that put)
C33_AtMostMaxSizeEntries ==
    /\ [](Len(cache) <= max_size /\ Cardinality(CachedKeys(cache)) = Len(cache))
    /\ [][(result'.op = "put" /\ cache' # cache
               /\ result'.ok /\ Len(cache) = max_size)
            => /\ result'.keys # <<>>
               /\ (/\ result'.key \in CachedKeys(cache)
                   /\ total_size - EntryOf(cache, result'.key).size_bytes
                          + cache'[Len(cache')].size_bytes <= max_memory_bytes)
                  => /\ result'.keys = <<result'.key>>
                     /\ CachedKeys(cache') = CachedKeys(cache)]_vars
\* a put has just replaced the value of a key in a full cache
C33_Witness ==
    /\ result.op = "put" /\ result.ok
    /\ result.keys = <<result.key>>
    /\ Len(cache) = max_size

\* C34: a get that hits moves the entry to the most recently used position,
\* adds one to its access_count and appends the access time to the key's
\* access history; every access history holds at most 10 timestamps, the
\* most recent ones in chronological order
C34_HitIsTrackedAndHistoryCapped ==
    /\ [](\A k \in Keys :
            LET times == TimesOf(access_patterns, k)
            IN  /\ Len(times) <= 10
                /\ times = LastTimes(access_log[k], 10)
                /\ \A i, j \in 1..Len(times) : i < j => times[i] <= times[j])
    /\ [][(get_calls' = get_calls + 1 /\ result'.ok)
            => LET key == result'.key
                   times == TimesOf(access_patterns', key)
               IN  /\ cache'[Len(cache')].key = key
                   /\ access_counts'[key] = access_counts[key] + 1
                   /\ times # <<>> /\ times[Len(times)] = now
                   /\ Len(times) = IF Len(TimesOf(access_patterns, key)) = 10 THEN 10
                                   ELSE Len(TimesOf(access_patterns, key)) + 1]_vars
\* the eleventh hit of a key, seconds after its first, has pushed the first
\* access time out of the history
C34_Witness ==
    /\ result.op = "get" /\ result.ok /\ result.key = "k1"
    /\ Len(access_log["k1"]) = 11
    /\ TimesOf(access_patterns, "k1") = Tail(access_log["k1"])
    /\ access_log["k1"][1] < access_log["k1"][11]
    /\ access_counts["k1"] >= 1

\* the cached keys whose entry was last accessed more than the staleness
\* threshold ago
StaleNow == {k \in CachedKeys(cache) : now - EntryOf(cache, k).last_access > 3600}

\* C35: optimize_cache removes exactly the entries whose last_access is older
\* than the staleness threshold and returns their number; the access history
\* and the relation set of each removed key are deleted and the key leaves
\* the relation sets of the other keys; the other entries keep their value,
\* their recency order and their relations
C35_OptimizeRemovesTheStale ==
    [][(result'.op = "optimize_cache" /\ (result' # result \/ cache' # cache))
        => /\ SeqToSet(result'.keys) = StaleNow
           /\ Len(result'.keys) = Cardinality(StaleNow)
           /\ cache' = SelectSeq(cache, LAMBDA e : e.key \notin StaleNow)
           /\ DOMAIN related_keys' = DOMAIN related_keys \ StaleNow
           /\ \A k \in DOMAIN related_keys' : related_keys'[k] = related_keys[k] \ StaleNow
           /\ \A k \in Keys :
                  TimesOf(access_patterns', k) =
                      IF k \in StaleNow THEN <<>> ELSE TimesOf(access_patterns, k)]_vars
\* optimize_cache has removed the stale k2, which had been read and was
\* related to k1, and has kept k1 with its history
C35_Witness ==
    /\ result.op = "optimize_cache" /\ result.keys = <<"k2">>
    /\ <<"k1", "k2">> \in linked
    /\ "k1" \in DOMAIN related_keys /\ "k2" \notin DOMAIN related_keys
    /\ "k1" \in CachedKeys(cache)
    /\ hit_count = 2
    /\ access_patterns = <<[key |-> "k1", times |-> <<1801>>]>>

\* the timers of the keys other than `key` are the same before and after
OtherKeysUntouched(key) ==
    \A k \in DebKeys \ {key} : threads'[k] = threads[k] /\ timers'[k] = timers[k]

\* C36: an invocation cancelled by cancel(key) or cancel_all() while it
\* waits for its delay never runs; cancel(key) and debounce(key) leave the
\* pending invocations of the other keys as they are; cancel_all() reaches
\* every pending invocation
C36_CancelledNeverRuns ==
    /\ [](\A k \in DebKeys : \A i \in 1..Len(threads[k]) :
            LET t == threads[k][i]
            IN  /\ mono < deadline(t) => t.pc \in {"wait", "done"} /\ t.runs = 0
                /\ (mono < deadline(t) /\ ~t.finished) => t.pc = "wait"
                /\ i # timers[k] => t.finished)
    /\ [][/\ \A k \in DebKeys : \A i \in 1..Len(threads[k]) :
              LET t == threads[k][i]
                  next == threads'[k][i]
              IN  /\ (t.cancelled /\ t.pc = "wait")
                        => /\ t.runs = 0 /\ next.runs = 0 /\ next.cancelled
                           /\ next.pc \in {"wait", "done"}
                  /\ (t.cancelled /\ t.pc = "done") => next = t
          /\ \A k \in DebKeys :
              /\ cancel(k)
                    => /\ OtherKeysUntouched(k)
                       /\ timers[k] # 0 =>
                              /\ threads'[k][timers[k]].finished
                              /\ threads'[k][timers[k]].cancelled
              /\ debounce(k) => OtherKeysUntouched(k)
          /\ cancel_all
                => \A k \in DebKeys : \A i \in 1..Len(threads[k]) :
                       /\ threads'[k][i].finished
                       /\ threads[k][i].pc = "wait" /\ ~threads[k][i].finished
                             => threads'[k][i].cancelled]_vars
\* ka's invocation was cancelled while it waited and has not run although
\* its delay is over; kb's invocation, pending at that time, has run
C36_Witness ==
    /\ Len(threads["ka"]) = 1 /\ Len(threads["kb"]) = 1
    /\ threads["ka"][1].cancelled /\ threads["ka"][1].runs = 0
    /\ threads["ka"][1].pc = "done"
    /\ mono > deadline(threads["ka"][1])
    /\ threads["kb"][1].started = threads["ka"][1].started
    /\ ~threads["kb"][1].cancelled /\ threads["kb"][1].runs = 1

\* the distance of the current time from the predicted next access of a key,
\* and a fifth of its mean interval, both multiplied by Intervals
Distance(times, t) ==
    LET d == (times[Len(times)] - t) * Intervals(times) + Span(times)
    IN  IF d < 0 THEN 0 - d ELSE d
WithinAFifth(times, t) == 5 * Distance(times, t) <= Span(times)

\* C37: get_preload_candidates(limit) returns at most limit keys, each with
\* at least 3 recorded accesses and not cached, whose predicted next access
\* (last access + mean interval) lies within 20% of the mean interval of the
\* current time, soonest predicted access first
C37_CandidatesAreDueNow ==
    [][candidates' # candidates
        => LET keys == candidates'.keys
           IN  /\ Len(keys) <= candidates'.limit
               /\ \A i \in 1..Len(keys) :
                      LET times == TimesOf(access_patterns, keys[i])
                      IN  /\ Len(times) >= 3
                          /\ keys[i] \notin CachedKeys(cache)
                          /\ WithinAFifth(times, now)
               /\ \A i, j \in 1..Len(keys) :
                      i < j => ~Sooner([times |-> TimesOf(access_patterns, keys[j])],
                                       [times |-> TimesOf(access_patterns, keys[i])],
                                       now)]_vars

\* the key of the latest continue_conversation, and whether the cache held a
\* live response for it before the call
KeyAsked == smart_cache_key(exchange'.id[1], turn_log'[exchange'.id][Len(turn_log'[exchange'.id])].user_message)

\* C38: a continue_conversation that is not streamed and finds a live cached
\* response for its key returns it, appends one turn and does not ask the
\* network layer; a failed response is never stored in the cache
C38_NetworkOnlyOnMiss ==
    [][(exchange' # exchange \/ result' # result)
        => /\ (exchange'.commit /\ get_value(KeyAsked) # NoValue)
                 => /\ exchange'.path = <<"thinking", "waiting_for_input">>
                    /\ exchange'.success
                    /\ Len(turn_log'[exchange'.id]) = Len(turn_log[exchange'.id]) + 1
                    /\ result'.op = "get" /\ result'.ok /\ result'.key = KeyAsked
                    /\ result'.value = EntryOf(cache, KeyAsked).value
                    /\ exchange'.text = <<EntryOf(cache, KeyAsked).value>>
                    /\ EntryKeys(cache') = Without(EntryKeys(cache), <<KeyAsked>>)
                                              \o <<KeyAsked>>
           /\ ~exchange'.success
                 => \A i \in 1..Len(cache') : \E j \in 1..Len(cache) : cache'[i] = cache[j]]_vars
\* the latest call was answered from the cache, for a message that differs
\* in case from the one whose response was cached
C38_Witness ==
    /\ exchange.path = <<"thinking", "waiting_for_input">>
    /\ result.op = "get" /\ result.ok /\ result.key = "k1"
    /\ Len(turn_log[exchange.id]) = 2
    /\ turn_log[exchange.id][1].user_message = "m1"
    /\ turn_log[exchange.id][2].user_message = "M1"

\* C40: every get is counted once, as a hit or as a miss: the hits and the
\* misses that get_stats reports add up to the number of get calls
C40_EveryGetIsCounted ==
    get_stats.hit_count + get_stats.miss_count = get_calls

\* C39: the active conversation is unset or one of the stored conversations
C39_ActiveIsStored ==
    active_conversation = NoConversation \/ active_conversation \in DOMAIN conversations

====
